---- MODULE Spec2Model ----
(***************************************************************************)
(* rom (Redis object mapper): the transactional write engine               *)
(* Model._apply_changes with its two commit strategies                     *)
(*   - the server-side script _redis_writer_lua (USE_LUA = True)           *)
(*   - the WATCH/MULTI/EXEC pipeline                (USE_LUA = False)      *)
(* driven by Model.save / Model.delete.                                    *)
(*                                                                         *)
(* Values.  A Python None is an absent key of a map (dict.get gives None). *)
(* Integer column values are naturals, Text column values are tuples of    *)
(* characters.  What is stored in Redis is a string: ToRedis of an Integer *)
(* n is the decimal string ToString(n), ToRedis of a Text is the text.     *)
(* A JSON value carried into the script is tagged: <<"str", s>>,           *)
(* <<"num", n>> or <<"null">>.                                             *)
(***************************************************************************)
EXTENDS Integers, Sequences, FiniteSets, TLC

\* ----------------------------------------------------------------- bounds
NumIds == 2
MaxVal == 2

Ids == 1..NumIds
Vals == 0..(MaxVal - 1)
Ints == 0..(MaxVal + NumIds)

\* ------------------------------------------------------------ partial maps
EmptyMap == [x \in {} |-> 0]

Put(m, k, v) == [x \in (DOMAIN m) \cup {k} |-> IF x = k THEN v ELSE m[x]]

Drop(m, K) == [x \in (DOMAIN m) \ K |-> m[x]]

Merge(m, n) == [x \in (DOMAIN m) \cup (DOMAIN n) |-> IF x \in DOMAIN n THEN n[x] ELSE m[x]]

\* ------------------------------------------------------------------ schema
\* The model classes of a program.  Pair has two unique columns, Account one
\* unique column and one numeric index, UniquePosition a composite constraint
\* (the docstring example), Doc a Text column with index, prefix and suffix.
Models == {"Pair", "Account", "UniquePosition", "Doc"}

\* cls._pkey
Pkey == "id"

\* cls._columns
Columns(m) ==
    CASE m = "Pair" -> {"id", "a", "b"}
      [] m = "Account" -> {"id", "a", "n"}
      [] m = "UniquePosition" -> {"id", "x", "y"}
      [] m = "Doc" -> {"id", "t"}

\* cls._unique: the columns declared unique=True
Unique(m) ==
    CASE m = "Pair" -> {"a", "b"}
      [] m = "Account" -> {"a"}
      [] OTHER -> {}

\* the unique_together attribute as declared on the class
UniqueTogether(m) ==
    CASE m = "UniquePosition" -> {<<"y", "x">>}
      [] OTHER -> {}

\* a constraint kept as it was declared: what sorted(set(comp)) must not be
DeclaredCols(comp) == comp

\* sorted(set(comp)) on column names
SortedCols(comp) ==
    LET rank == [c \in {"a", "b", "n", "t", "x", "y"} |->
                   CASE c = "a" -> 1 [] c = "b" -> 2 [] c = "n" -> 3
                     [] c = "t" -> 4 [] c = "x" -> 5 [] c = "y" -> 6]
        lo == CHOOSE c \in {comp[1], comp[2]} :
                 \A d \in {comp[1], comp[2]} : rank[c] <= rank[d]
        hi == CHOOSE c \in {comp[1], comp[2]} :
                 \A d \in {comp[1], comp[2]} : rank[d] <= rank[c]
    IN <<lo, hi>>

\* cls._cunique: each constraint as the sorted tuple of its column names
Cunique(m) == {SortedCols(comp) : comp \in UniqueTogether(m)}

\* cls._index, cls._prefix, cls._suffix
Index(m) ==
    CASE m = "Account" -> {"n"}
      [] m = "Doc" -> {"t"}
      [] OTHER -> {}

Prefix(m) == IF m = "Doc" THEN {"t"} ELSE {}

Suffix(m) == IF m = "Doc" THEN {"t"} ELSE {}

\* the column class of an attribute
ColType(a) == IF a = "t" THEN "Text" ELSE "Integer"

\* the text of the v-th word: two characters, so that reversal is visible
Word(v) == <<v, (v + 1) % MaxVal>>

\* the Python values a column can hold
ColVals(a) == IF ColType(a) = "Text" THEN {Word(v) : v \in Vals} ELSE Vals

\* Column.to_redis / Column._from_redis
ToRedis(a, v) == IF ColType(a) = "Text" THEN v ELSE ToString(v)

FromRedis(a, s) ==
    IF ColType(a) = "Text" THEN s ELSE CHOOSE n \in Ints : ToString(n) = s

\* Python truthiness of a column value: 0 and the empty text are false
Truthy(a, v) == IF ColType(a) = "Text" THEN Len(v) > 0 ELSE v # 0

\* k[::-1]
Reverse(s) == [i \in 1..Len(s) |-> s[Len(s) + 1 - i]]

\* ca._keygen: "dict" for a numeric column ({'': score}), "list" for a Text
\* column (the list of its words), "none" when the column has no index
KeygenKind(m, a) ==
    IF a \in Index(m) \cup Prefix(m) \cup Suffix(m)
    THEN (IF ColType(a) = "Text" THEN "list" ELSE "dict")
    ELSE "none"

\* ':'.join(uniq)
JoinCols(uniq) == uniq[1] \o ":" \o uniq[2]

\* util._encode_unique_constraint: the join of the encoded values
EncodeUniqueConstraint(vals) == vals[1] \o ":" \o vals[2]

\* ------------------------------------------------- JSON values of the script
JsonStr(s) == <<"str", s>>

JsonNum(n) == <<"num", n>>

JsonNull == <<"null">>

\* json.dumps of a Python column value
JsonOf(a, v) == IF ColType(a) = "Text" THEN JsonStr(v) ELSE JsonNum(v)

\* how redis.call turns a decoded JSON value into a command argument: a
\* string as it is, a number as its decimal string; cjson.null is no argument
RedisArg(j) == IF j[1] = "num" THEN ToString(j[2]) ELSE j[2]

IsNull(j) == j[1] = "null"

\* --------------------------------- Model._apply_changes: the mutation set
\* A call c is [m, pk, old, new, full, delete, lua]: old maps attributes to
\* encoded strings (entity._last), new maps attributes to Python values.
HasOld(c, a) == a \in DOMAIN c.old

HasNew(c, a) == a \in DOMAIN c.new

\* oval = ca._from_redis(roval), nval = new.get(attr), rnval = ca.to_redis(nval)
Oval(c, a) == FromRedis(a, c.old[a])

Rnval(c, a) == ToRedis(a, c.new[a])

\* nval == oval
SameValue(c, a) ==
    \/ ~HasOld(c, a) /\ ~HasNew(c, a)
    \/ HasOld(c, a) /\ HasNew(c, a) /\ Oval(c, a) = c.new[a]

\* a column loop without the skip of unchanged attributes: what it must
\* not be
TouchedAlways(c, a) == TRUE

\* the attribute passes "if nval == oval and not full: continue"
Touched(c, a) == ~(SameValue(c, a) /\ ~c.full)

\* "if nval is None and oval is not None": the column is removed
Removed(c, a) == Touched(c, a) /\ ~HasNew(c, a) /\ HasOld(c, a)

\* the attributes that reach "Add/update unique index"
WritesUnique(c, a) == a \in Unique(c.m) /\ Touched(c, a) /\ ~Removed(c, a)

\* changes, as counted by the column loop
Changes(c) == Cardinality({a \in Columns(c.m) : Touched(c, a)})

\* deleted
DeletedCols(c) == {a \in Columns(c.m) : Removed(c, a)}

\* data
Data(c) == [a \in {x \in Columns(c.m) : Touched(c, x) /\ HasNew(c, x)} |-> Rnval(c, a)]

\* a keygen run for the changed attributes only (after the skip of the
\* unchanged ones): what the column loop must not be
GeneratesChanged(c, a) ==
    /\ KeygenKind(c.m, a) # "none"
    /\ ~c.delete
    /\ HasNew(c, a)
    /\ ~(SameValue(c, a) /\ ~c.full)

\* the attributes whose keygen is run
Generates(c, a) ==
    /\ KeygenKind(c.m, a) # "none"
    /\ ~c.delete
    /\ HasNew(c, a)

\* keys: 'attr:k' for every key of a list keygen of an index column
Keys(c) ==
    {<<a, c.new[a]>> : a \in {x \in Index(c.m) :
                                 Generates(c, x) /\ KeygenKind(c.m, x) = "list"}}

\* scores: attr -> score for a dict keygen ({'': float(value)})
Scores(c) ==
    [a \in {x \in Columns(c.m) : Generates(c, x) /\ KeygenKind(c.m, x) = "dict"}
       |-> c.new[a]]

\* prefix and suffix: [attr, k] and [attr, k[::-1]]
PrefixList(c) ==
    {<<a, c.new[a]>> : a \in {x \in Prefix(c.m) :
                                 Generates(c, x) /\ KeygenKind(c.m, x) = "list"}}

SuffixList(c) ==
    {<<a, Reverse(c.new[a])>> : a \in {x \in Suffix(c.m) :
                                 Generates(c, x) /\ KeygenKind(c.m, x) = "list"}}

\* odata and ndata of a composite constraint, and whether None is in them
ONone(c, uniq) == \E i \in 1..Len(uniq) : ~HasOld(c, uniq[i])

NNone(c, uniq) == \E i \in 1..Len(uniq) : ~HasNew(c, uniq[i])

OData(c, uniq) == [i \in 1..Len(uniq) |-> c.old[uniq[i]]]

NData(c, uniq) == [i \in 1..Len(uniq) |-> Rnval(c, uniq[i])]

\* "odata != ndata and None not in odata"
CompositeRemoved(c, uniq) ==
    /\ ~ONone(c, uniq)
    /\ (NNone(c, uniq) \/ OData(c, uniq) # NData(c, uniq))

\* a unique map that leaves the composite constraints out: what the
\* "Add/update multi-column unique constraint" loop must not be
UniqueMapSingles(c) ==
    [a \in {x \in Unique(c.m) : WritesUnique(c, x)} |->
       IF HasNew(c, a) THEN JsonStr(Rnval(c, a)) ELSE JsonNull]

\* unique (scripted path): single columns carry rnval, which is None when the
\* column is null in old and new and the write is full; composite
\* constraints carry the joined key when no column of ndata is None
UniqueMap(c) ==
    LET single == [a \in {x \in Unique(c.m) : WritesUnique(c, x)} |->
                     IF HasNew(c, a) THEN JsonStr(Rnval(c, a)) ELSE JsonNull]
        comp == {u \in Cunique(c.m) : ~NNone(c, u)}
        multi == [n \in {JoinCols(u) : u \in comp} |->
                    LET u == CHOOSE v \in comp : JoinCols(v) = n
                    IN JsonStr(EncodeUniqueConstraint(NData(c, u)))]
    IN Merge(single, multi)

\* udeleted (scripted path): roval for a removed column, oval (the decoded
\* value) for a changed one, the joined old key for a composite constraint
UdeletedMap(c) ==
    LET gone == {a \in Unique(c.m) : Removed(c, a)}
        moved == {a \in Unique(c.m) :
                    /\ WritesUnique(c, a)
                    /\ HasOld(c, a)
                    /\ (~HasNew(c, a) \/ c.old[a] # Rnval(c, a))}
        single == [a \in gone \cup moved |->
                     IF a \in gone THEN JsonStr(c.old[a]) ELSE JsonOf(a, Oval(c, a))]
        comp == {u \in Cunique(c.m) : CompositeRemoved(c, u)}
        multi == [n \in {JoinCols(u) : u \in comp} |->
                    LET u == CHOOSE v \in comp : JoinCols(v) = n
                    IN JsonStr(EncodeUniqueConstraint(OData(c, u)))]
    IN Merge(single, multi)

\* ------------------------------------------------------------------- Redis
\* The keys of one namespace:
\*   hash[id]            '<ns>:<id>'          the primary hash (no key = empty)
\*   uidx[<<col, v>>]    '<ns>:<col>:uidx'    field v -> id
\*   idx                 '<ns>:<attr>:<k>:idx' set members, as <<<<attr, k>>, id>>
\*   zidx[<<attr, id>>]  '<ns>:<attr>:idx'    sorted-set member id -> score
\*   pre, suf            '<ns>:<attr>:pre|suf' members 'text\0id' as <<attr, text, id>>
\*                       (the score is _prefix_score(text), a function of the member)
\*   desc[id]            '<ns>::'             field id -> the index descriptor
\*   indexed[<<attr, id>>]      '<ns>:indexed:<attr>'           member id -> score
\*   mappings[<<attr, text>>]   '<ns>:indexed:<attr>:mappings'  field text -> list of ids
\* Record ids are kept as integers; Redis holds str(pk).
EmptyRedis ==
    [hash |-> [i \in Ids |-> EmptyMap], uidx |-> EmptyMap, idx |-> {},
     zidx |-> EmptyMap, pre |-> {}, suf |-> {}, desc |-> EmptyMap,
     indexed |-> EmptyMap, mappings |-> EmptyMap]

\* hget(ikey, value) is not None
Known(r, col, v) == <<col, v>> \in DOMAIN r.uidx

\* ---------------------------------------------------- _redis_writer_lua
\* "check and update unique column constraints": for write in {false, true},
\* for col, value in pairs(unique).  pairs() visits the columns in an
\* unspecified order: cols is the order of one run.
\*
\* The step of the first pass (write = false) for one column: HGET gives
\* another id ("return col"), or the value is cjson.null, which redis.call
\* refuses as an argument (the script ends with an error)
LuaCheckFails(uidx, pk, unique, col) ==
    \/ IsNull(unique[col])
    \/ /\ <<col, RedisArg(unique[col])>> \in DOMAIN uidx
       /\ uidx[<<col, RedisArg(unique[col])>>] # pk

\* the first column of the order that fails the first pass, "" when none does
RECURSIVE LuaCheckPass(_, _, _, _)
LuaCheckPass(uidx, pk, unique, cols) ==
    IF cols = <<>> THEN ""
    ELSE IF LuaCheckFails(uidx, pk, unique, Head(cols)) THEN Head(cols)
    ELSE LuaCheckPass(uidx, pk, unique, Tail(cols))

\* the second pass (write = true): HSET key value id for every column
LuaWriteUnique(uidx, pk, unique) ==
    Merge(uidx, [f \in {<<col, RedisArg(unique[col])>> : col \in DOMAIN unique} |-> pk])

\* a loop that checks and writes column by column in one pass: what the
\* two-pass loop must not be
RECURSIVE LuaUniqueLoopOnePass(_, _, _, _)
LuaUniqueLoopOnePass(uidx, pk, unique, cols) ==
    IF cols = <<>> THEN [uidx |-> uidx, failed |-> ""]
    ELSE IF LuaCheckFails(uidx, pk, unique, Head(cols))
    THEN [uidx |-> uidx, failed |-> Head(cols)]
    ELSE LuaUniqueLoopOnePass(
             Put(uidx, <<Head(cols), RedisArg(unique[Head(cols)])>>, pk),
             pk, unique, Tail(cols))

\* both passes: the unique maps when the loop ends, and the column that ended
\* the script ("" when the script goes on)
LuaUniqueLoop(uidx, pk, unique, cols) ==
    LET bad == LuaCheckPass(uidx, pk, unique, cols)
    IN IF bad # ""
       THEN [uidx |-> uidx, failed |-> bad]
       ELSE [uidx |-> LuaWriteUnique(uidx, pk, unique), failed |-> ""]

\* "remove deleted unique constraints": HDEL only when known == id
LuaRemoveUnique(uidx, pk, udeleted) ==
    Drop(uidx, {f \in {<<col, RedisArg(udeleted[col])>> : col \in DOMAIN udeleted} :
                  f \in DOMAIN uidx /\ uidx[f] = pk})

\* a hash update that skips the HDEL of the deleted columns: what the
\* script must not be
LuaWriteHashKeep(h, deleted, data) == Merge(h, data)

\* "remove deleted columns" then "update changed/added columns"
LuaWriteHash(h, deleted, data) == Merge(Drop(h, deleted), data)

\* "remove old index data": every entry the stored descriptor lists
LuaUnindex(r, pk) ==
    IF pk \notin DOMAIN r.desc THEN r
    ELSE LET idata == r.desc[pk]
         IN [r EXCEPT
               !.idx = @ \ {<<k, pk>> : k \in idata.keys},
               !.zidx = Drop(@, {<<k, pk>> : k \in idata.scored}),
               !.pre = @ \ {<<d[1], d[2], pk>> : d \in idata.prefix},
               !.suf = @ \ {<<d[1], d[2], pk>> : d \in idata.suffix}]

\* "if is_delete": DEL the primary hash, HDEL the descriptor
LuaDelete(r, pk, isDelete) ==
    IF isDelete
    THEN [r EXCEPT !.hash[pk] = EmptyMap, !.desc = Drop(@, {pk})]
    ELSE r

\* "add new key index data" (nothing), "add new scored index data",
\* "add new prefix data", "add new suffix data".  The script ends with
\* "return #nscored + #nprefix + #nsuffix": ARGV[7] (keys) is never read and
\* no descriptor is written.
LuaIndex(r, pk, keys, scored, prefix, suffix) ==
    [r EXCEPT
       !.zidx = Merge(@, [f \in {<<k, pk>> : k \in DOMAIN scored} |-> scored[f[1]]]),
       !.pre = @ \cup {<<d[1], d[2], pk>> : d \in prefix},
       !.suf = @ \cup {<<d[1], d[2], pk>> : d \in suffix}]

\* the script after the unique loop
LuaRest(r, pk, udeleted, deleted, data, keys, scored, prefix, suffix, isDelete) ==
    LET r1 == [r EXCEPT !.uidx = LuaRemoveUnique(@, pk, udeleted),
                        !.hash[pk] = LuaWriteHash(@, deleted, data)]
        r2 == LuaUnindex(r1, pk)
        r3 == LuaDelete(r2, pk, isDelete)
    IN LuaIndex(r3, pk, keys, scored, prefix, suffix)

\* the orders in which pairs() can visit a set of columns
Orders(S) == {s \in [1..Cardinality(S) -> S] : \A i, j \in 1..Cardinality(S) : s[i] = s[j] => i = j}

\* one run of the script, and what redis_writer_lua makes of its result: a
\* column name raises UniqueKeyViolation, a script error reaches the caller
\* as redis.exceptions.ResponseError.  A script that ends early keeps what
\* it has written (Redis does not roll a script back).
RedisWriterLua(r, c, unique, cols) ==
    LET loop == LuaUniqueLoop(r.uidx, c.pk, unique, cols)
        r0 == [r EXCEPT !.uidx = loop.uidx]
    IN IF loop.failed # ""
       THEN [redis |-> r0,
             outcome |-> IF IsNull(unique[loop.failed]) THEN "ResponseError"
                         ELSE "UniqueKeyViolation",
             changes |-> 0, col |-> loop.failed]
       ELSE [redis |-> LuaRest(r0, c.pk, UdeletedMap(c), DeletedCols(c), Data(c),
                               Keys(c), Scores(c), PrefixList(c), SuffixList(c),
                               c.delete),
             outcome |-> "ok", changes |-> Changes(c), col |-> ""]

\* the scripted branch of _apply_changes
ApplyLua(r, c) ==
    LET unique == UniqueMap(c)
    IN {RedisWriterLua(r, c, unique, cols) : cols \in Orders(DOMAIN unique)}

\* ------------------------------------------------ GeneralIndex (index.py)
\* _unindex(conn, pipe, id): remove what the descriptor lists, and the descriptor
GindexUnindex(r, pk) == [LuaUnindex(r, pk) EXCEPT !.desc = Drop(@, {pk})]

\* index(conn, id, keys, scores, prefix, suffix, pipe): unindex, add the new
\* entries of the four kinds, store the new descriptor
GindexIndex(r, pk, keys, scored, prefix, suffix) ==
    LET r1 == GindexUnindex(r, pk)
        r2 == LuaIndex(r1, pk, keys, scored, prefix, suffix)
    IN [r2 EXCEPT
          !.idx = @ \cup {<<k, pk>> : k \in keys},
          !.desc = Put(@, pk, [keys |-> keys, scored |-> DOMAIN scored,
                               prefix |-> prefix, suffix |-> suffix])]

\* ------------------------------------- the WATCH/MULTI/EXEC branch
\* a branch without the configuration checks: what the head of the loop
\* must not be
PipeNoConfigCheck(c) == FALSE

\* the configuration checks at the head of the loop
PipeConfigError(c) == Cardinality(Unique(c.m)) > 1 \/ Cunique(c.m) # {}

\* "if not (nuval and (ouval != nuvale or full)): continue" does not skip col
PipeChecks(c, col) ==
    /\ HasNew(c, col)
    /\ Truthy(col, c.new[col])
    /\ (~HasOld(c, col) \/ c.old[col] # Rnval(c, col) \/ c.full)

\* hget(ikey, nuvale) gives an id other than pk
PipeConflict(r, c, col) ==
    /\ PipeChecks(c, col)
    /\ Known(r, col, Rnval(c, col))
    /\ r.uidx[<<col, Rnval(c, col)>>] # c.pk

\* how redis-py encodes the field of hset(ikey, rnval, pk): str(None) for None
PipeField(c, a) == IF HasNew(c, a) THEN Rnval(c, a) ELSE "None"

\* the queued hdel(ikey, roval) and hset(ikey, rnval, pk) of the column loop
PipeWriteUnique(uidx, c) ==
    LET hdel == {<<a, c.old[a]>> : a \in {x \in Unique(c.m) : Touched(c, x) /\ HasOld(c, x)}}
        hset == {<<a, PipeField(c, a)>> : a \in {x \in Unique(c.m) : WritesUnique(c, x)}}
    IN Merge(Drop(uidx, hdel), [f \in hset |-> c.pk])

\* a commit that takes the branch of a save for a delete too: what the
\* "elif delete" branch must not be
PipeCommitAsSave(r, c) ==
    LET r1 == [r EXCEPT !.uidx = PipeWriteUnique(@, c),
                        !.hash[c.pk] = Drop(@, DeletedCols(c))]
    IN GindexIndex([r1 EXCEPT !.hash[c.pk] = Merge(@, Data(c))], c.pk,
                   Keys(c), Scores(c), PrefixList(c), SuffixList(c))

\* pipe.execute() of the queued commands, with no concurrent writer
PipeCommit(r, c) ==
    LET r1 == [r EXCEPT !.uidx = PipeWriteUnique(@, c),
                        !.hash[c.pk] = Drop(@, DeletedCols(c))]
    IN IF c.delete
       THEN [GindexUnindex(r1, c.pk) EXCEPT !.hash[c.pk] = EmptyMap]
       ELSE GindexIndex([r1 EXCEPT !.hash[c.pk] = Merge(@, Data(c))], c.pk,
                        Keys(c), Scores(c), PrefixList(c), SuffixList(c))

ApplyPipe(r, c) ==
    IF PipeConfigError(c)
    THEN {[redis |-> r, outcome |-> "ColumnError", changes |-> 0, col |-> ""]}
    ELSE LET bad == {col \in Unique(c.m) : PipeConflict(r, c, col)}
         IN IF bad # {}
            THEN {[redis |-> r, outcome |-> "UniqueKeyViolation", changes |-> 0,
                   col |-> col] : col \in bad}
            ELSE {[redis |-> PipeCommit(r, c), outcome |-> "ok",
                   changes |-> Changes(c) + (IF c.delete THEN 1 ELSE 0),
                   col |-> ""]}

\* Model._apply_changes(old, new, full, delete): the possible results
ApplyChanges(r, c) ==
    IF Pkey \notin (DOMAIN c.old) \cup (DOMAIN c.new)
    THEN {[redis |-> r, outcome |-> "ColumnError", changes |-> 0, col |-> ""]}
    ELSE IF c.lua THEN ApplyLua(r, c) ELSE ApplyPipe(r, c)

\* ------------------------------------------------------------------- state
VARIABLES
    use_lua,    \* the module flag USE_LUA, as _enable_lua_writes() or
                \* _disable_lua_writes() has left it
    cls,        \* the model class the program defines
    redis,      \* the keys of the model's namespace
    last,       \* entity._last of the entity with each primary key
    isnew,      \* entity._new
    deleted,    \* entity._deleted
    ret,        \* the last save() or delete(): what it was and how it ended
    th,         \* the call in progress on each entity, when the calls of
                \* several clients interleave: its position and its pipeline
    defined,    \* MODELS: the names of the model classes defined so far
    qs,         \* the Query objects the program holds
    heap,       \* the list objects that Query objects refer to
    gen,        \* the generator that iter_result() has returned
    cache,      \* the cached result structures in the store
    qret,       \* the last Query call: what it was and how it ended
    ent,        \* entity._data, entity._orig_data and entity._modified of
                \* the entity with each primary key
    session,    \* the primary keys of the entities the session knows
    dirty,      \* the members of the '<pk>:dirty' sets, as <<pk, field>>
    got,        \* the argument and the value of the program's last call,
                \* when that was a Model.get
    it          \* the generator of a paged walk over a cached result

vars == <<use_lua, cls, redis, last, isnew, deleted, ret, th, defined, qs,
          heap, gen, cache, qret, ent, session, dirty, got, it>>

\* the state of the entities and of the store
modelVars == <<use_lua, cls, redis, last, isnew, deleted, ret, th>>

\* the state of the Query objects and of their cached results
queryVars == <<qs, heap, gen, cache, qret>>

\* the state of the session, of the entities' attributes and of a paged walk
sessionVars == <<ent, session, dirty, got, it>>

\* entity.to_dict() of the entity with primary key pk: every assignment of
\* column values, the primary key included
RECURSIVE MapsOver(_)
MapsOver(cols) ==
    IF cols = {} THEN {EmptyMap}
    ELSE LET a == CHOOSE x \in cols : TRUE
             rest == MapsOver(cols \ {a})
         IN rest \cup {Put(f, a, v) : f \in rest, v \in ColVals(a)}

NewMaps(m, pk) == {Put(f, Pkey, pk) : f \in MapsOver(Columns(m) \ {Pkey})}

\* save() re-encodes new into _last
Encoded(new) == [a \in DOMAIN new |-> ToRedis(a, new[a])]

Call(pk, new, full, delete) ==
    [m |-> cls, pk |-> pk, old |-> last[pk], new |-> new, full |-> full,
     delete |-> delete, lua |-> use_lua]

\* the record of a call: the operation, the entity, how it ended, whether it
\* was the entity's first save and whether it removed a column
Returned(op, c, res) ==
    [op |-> op, pk |-> c.pk, outcome |-> res.outcome, first |-> isnew[c.pk],
     removed |-> (res.outcome = "ok" /\ ~c.delete /\ DeletedCols(c) # {})]

\* the call save(full) makes, and the call delete() makes
SaveCall(pk, new, full) == Call(pk, new, full \/ isnew[pk], FALSE)

DeleteCall(pk) == Call(pk, EmptyMap, FALSE, TRUE)

SaveResults(pk, new, full) == ApplyChanges(redis, SaveCall(pk, new, full))

DeleteResults(pk) == ApplyChanges(redis, DeleteCall(pk))

\* the list of ids without pk (pk_list.remove(self.pk))
RECURSIVE Without(_, _)
Without(l, pk) ==
    IF l = <<>> THEN <<>>
    ELSE IF Head(l) = pk THEN Tail(l)
    ELSE <<Head(l)>> \o Without(Tail(l), pk)

\* the list stored under a field of a mappings hash ("[]" when there is none)
PkList(r, f) == IF f \in DOMAIN r.mappings THEN r.mappings[f] ELSE <<>>

\* save(), after _apply_changes: "loops through and index all columns that
\* should be indexed" with the values val of the entity
SaveIndexed(r, pk, val) ==
    LET cols == {a \in Index(cls) : a \in DOMAIN val}
        text == {a \in cols : ColType(a) = "Text"}
    IN [r EXCEPT
          !.indexed = Merge(@, [f \in {<<a, pk>> : a \in cols} |->
                                  IF f[1] \in text THEN 0 ELSE val[f[1]]]),
          !.mappings = Merge(@, [f \in {<<a, val[a]>> : a \in text} |->
                                   IF \E i \in DOMAIN PkList(r, f) : PkList(r, f)[i] = pk
                                   THEN PkList(r, f)
                                   ELSE Append(PkList(r, f), pk)])]

\* delete(), after _apply_changes: "Go through and remove indexed columns
\* from redis" with the values val of the entity
DeleteIndexed(r, pk, val) ==
    LET cols == {a \in Index(cls) : a \in DOMAIN val}
        text == {a \in cols : ColType(a) = "Text"}
        held == {f \in {<<a, val[a]>> : a \in text} :
                   \E i \in DOMAIN PkList(r, f) : PkList(r, f)[i] = pk}
    IN [r EXCEPT
          !.indexed = Drop(@, {<<a, pk>> : a \in cols}),
          !.mappings = Merge(@, [f \in held |-> Without(PkList(r, f), pk)])]

\* no call in progress: the thread of an entity between two calls
IdleThread ==
    [pc |-> "idle", op |-> "none", new |-> EmptyMap, full |-> FALSE,
     watching |-> FALSE, dirty |-> FALSE, retries |-> 0, hits |-> 0,
     calls |-> 0, outcome |-> "none"]

\* ----------------------------------------------------------- Query objects
\* the most filters a Query carries, the most cached results the store
\* holds at once, and the most entities a search finds
MaxFilters == 2
MaxCache == 2
MaxHits == 1

\* the timeouts the callers pass, in half seconds: -1.5, 0.5, 1, 1.5
Timeouts == {-3, 1, 2, 3}

\* int(timeout): truncation towards zero
IntOf(h) == IF h >= 0 THEN h \div 2 ELSE -((-h) \div 2)

\* whether the timeout is a whole number of seconds, which EXPIRE requires
Whole(h) == h % 2 = 0

\* Query(model): no filters (the empty tuple), no ordering, no limit.  A
\* Query whose _filters is a list holds a reference into heap (ref > 0);
\* a tuple is a value (ref = 0).
NewQuery == [filters |-> <<>>, ref |-> 0, order_by |-> "None", limit |-> <<>>]

\* self._filters
Filters(q, h) == IF q.ref = 0 THEN q.filters ELSE h[q.ref]

\* "if self._order_by": None and the empty string are false
OrderGiven(q) == q.order_by \notin {"None", ""}

\* self._order_by.lstrip('-')
Lstrip(col) == IF col = "-n" THEN "n" ELSE col

\* the element that each filtering call appends: (attr, lo, hi) for a number,
\* Prefix(k, v), Suffix(k, v[::-1]), Pattern(k, v); count() appends the name
\* of the order column
FilterOf(kind) ==
    CASE kind = "filter" -> [kind |-> "range", attr |-> "n", arg |-> <<1, 1>>]
      [] kind = "startswith" -> [kind |-> "Prefix", attr |-> "t", arg |-> Word(0)]
      [] kind = "endswith" ->
           [kind |-> "Suffix", attr |-> "t", arg |-> Reverse(Word(0))]
      [] kind = "like" -> [kind |-> "Pattern", attr |-> "t", arg |-> Word(0)]

OrderColumn(col) == [kind |-> "name", attr |-> Lstrip(col), arg |-> <<>>]

\* _search and cached_result accept every Query (the check is missing)
NeverMissing(q, h) == FALSE

\* "if not (self._filters or self._order_by)" of _search and cached_result
MissingCriteria(q, h) == ~(Len(Filters(q, h)) > 0 \/ OrderGiven(q))

\* cached_result accepts every timeout (the check "timeout < 1" is missing)
TimeoutAccepted(h) == FALSE

\* "timeout = int(timeout); if timeout < 1" of cached_result
TimeoutTooSmall(h) == IntOf(h) < 1

\* no generator is being consumed
IdleGen == [state |-> "none", q |-> NewQuery, timeout |-> 0]

\* no Query call has been made
NoCall == [op |-> "none", outcome |-> "none", store |-> FALSE, value |-> 0]

\* Model(): _data holds the primary key, _orig_data is its copy, _modified
\* is False
NewEntity(pk) ==
    [data |-> Put(EmptyMap, Pkey, pk), orig |-> Put(EmptyMap, Pkey, pk),
     modified |-> FALSE]

\* the program's last call was neither save() nor delete()
NoRet ==
    [op |-> "none", pk |-> 0, outcome |-> "none", first |-> FALSE,
     removed |-> FALSE]

\* the program's last call was not Model.get
NoGet == [ids |-> <<>>, single |-> FALSE, out |-> <<>>]

\* no paged walk has been started
NoWalk ==
    [state |-> "none", timeout |-> 0, pagesize |-> 0, key |-> <<>>,
     alive |-> FALSE, intact |-> TRUE, searches |-> 0, expires |-> 0,
     n |-> 0, i |-> 0, page |-> <<>>, reads |-> <<>>, found |-> <<>>,
     yielded |-> <<>>]

\* Nothing is stored, and the entities have been constructed without column
\* values (these are assigned afterwards), so that _last is empty until the
\* first save.  The model classes have been defined with scripting enabled,
\* and either commit path has been selected since.
Init ==
    /\ use_lua \in BOOLEAN
    /\ cls \in Models
    /\ redis = EmptyRedis
    /\ last = [i \in Ids |-> EmptyMap]
    /\ isnew = [i \in Ids |-> TRUE]
    /\ deleted = [i \in Ids |-> FALSE]
    /\ ret = [op |-> "none", pk |-> 0, outcome |-> "none", first |-> FALSE,
              removed |-> FALSE]
    /\ th = [i \in Ids |-> IdleThread]
    /\ defined = Models
    /\ qs = [self |-> NewQuery, result |-> NewQuery]
    /\ heap = <<>>
    /\ gen = IdleGen
    /\ cache = <<>>
    /\ qret = NoCall
    /\ ent = [i \in Ids |-> NewEntity(i)]
    /\ session = Ids
    /\ dirty = {}
    /\ got = NoGet
    /\ it = NoWalk

\* Model.save(full) of the entity whose to_dict() is new:
\* _apply_changes(self._last, new, full or self._new); when it returns, _new
\* and _deleted are cleared, _last is the encoded new and the indexed columns
\* are written to the secondary structures.  An exception leaves the entity
\* as it was.
Save(pk, new, full) ==
    /\ \E res \in SaveResults(pk, new, full) :
         /\ ret' = Returned("save", SaveCall(pk, new, full), res)
         /\ IF res.outcome = "ok"
            THEN /\ redis' = SaveIndexed(res.redis, pk, new)
                 /\ last' = [last EXCEPT ![pk] = Encoded(new)]
                 /\ isnew' = [isnew EXCEPT ![pk] = FALSE]
                 /\ deleted' = [deleted EXCEPT ![pk] = FALSE]
            ELSE /\ redis' = res.redis
                 /\ UNCHANGED <<last, isnew, deleted>>
    /\ UNCHANGED <<use_lua, cls>>

\* Model.delete() of the entity whose attributes are val:
\* _apply_changes(self._last, {}, delete=True), then _deleted = True and the
\* indexed columns are removed from the secondary structures; _last is not
\* reset.  An exception leaves the entity as it was.
Delete(pk, val) ==
    /\ \E res \in DeleteResults(pk) :
         /\ ret' = Returned("delete", DeleteCall(pk), res)
         /\ IF res.outcome = "ok"
            THEN /\ redis' = DeleteIndexed(res.redis, pk, val)
                 /\ deleted' = [deleted EXCEPT ![pk] = TRUE]
            ELSE /\ redis' = res.redis
                 /\ UNCHANGED deleted
    /\ UNCHANGED <<use_lua, cls, last, isnew>>

\* The callers save and delete the entities they hold, and let go of an
\* entity once they have deleted it: every call passes as old map the new
\* map of the entity's call before.
Next ==
    \/ \E pk \in Ids, full \in BOOLEAN : \E new \in NewMaps(cls, pk) :
         /\ ~deleted[pk] /\ Save(pk, new, full)
         /\ UNCHANGED <<th, defined, queryVars, sessionVars>>
    \/ \E pk \in Ids : \E val \in NewMaps(cls, pk) :
         /\ ~deleted[pk] /\ Delete(pk, val)
         /\ UNCHANGED <<th, defined, queryVars, sessionVars>>

Spec == Init /\ [][Next]_vars

\* ---------------------------------------------- an entity saved once more
\* A caller that keeps the entity it has deleted and saves it again: delete()
\* has left _last and _new as they were and has set _deleted, which the
\* next save() clears.
InitResave == Init /\ cls = "Pair"

NextResave ==
    \/ \E pk \in Ids, full \in BOOLEAN : \E new \in NewMaps(cls, pk) :
         /\ Save(pk, new, full)
         /\ UNCHANGED <<th, defined, queryVars, sessionVars>>
    \/ \E pk \in Ids : \E val \in NewMaps(cls, pk) :
         /\ ~deleted[pk] /\ Delete(pk, val)
         /\ UNCHANGED <<th, defined, queryVars, sessionVars>>

SpecResave == InitResave /\ [][NextResave]_vars

\* ------------------------------ the optimistic path, call by call in steps
\* The calls of two clients interleave command by command.  Each client
\* holds one entity and runs its save() and delete() calls one after the
\* other; scripting is disabled.  MaxCalls bounds the calls of one client.
MaxCalls == 2

\* the arguments of the call in progress on entity pk
ThCall(pk) == Call(pk, th[pk].new, th[pk].full, th[pk].op = "delete")

\* the commit writes the unique map of a column: an HSET, or an HDEL of a
\* field that exists (Redis flags a watched key when a command modifies it)
TouchesUidx(r, c) ==
    \E a \in Unique(c.m) :
      \/ WritesUnique(c, a)
      \/ Touched(c, a) /\ HasOld(c, a) /\ <<a, c.old[a]>> \in DOMAIN r.uidx

\* the call ends with an exception: the entity is left as it was
Raised(t, outcome) ==
    [t EXCEPT !.pc = "idle", !.op = "none", !.new = EmptyMap, !.full = FALSE,
              !.watching = FALSE, !.dirty = FALSE, !.outcome = outcome]

\* save(full) starts: new = to_dict(), _apply_changes(_last, new, full or _new)
\* checks the primary key and enters the loop
WBeginSave(pk, new, full) ==
    /\ th[pk].pc = "idle" /\ th[pk].calls < MaxCalls
    /\ ~deleted[pk]
    /\ th' = [th EXCEPT ![pk] =
                 [IdleThread EXCEPT !.pc = "head", !.op = "save", !.new = new,
                                    !.full = (full \/ isnew[pk]),
                                    !.calls = th[pk].calls + 1]]
    /\ UNCHANGED <<use_lua, cls, redis, last, isnew, deleted, ret>>

\* delete() starts: _apply_changes(_last, {}, delete=True); without a primary
\* key in old it raises ColumnError
WBeginDelete(pk) ==
    /\ th[pk].pc = "idle" /\ th[pk].calls < MaxCalls
    /\ ~deleted[pk]
    /\ th' = [th EXCEPT ![pk] =
                 IF Pkey \in DOMAIN last[pk]
                 THEN [IdleThread EXCEPT !.pc = "head", !.op = "delete",
                                         !.calls = th[pk].calls + 1]
                 ELSE [IdleThread EXCEPT !.outcome = "ColumnError",
                                         !.calls = th[pk].calls + 1]]
    /\ UNCHANGED <<use_lua, cls, redis, last, isnew, deleted, ret>>

\* the head of "while 1": the configuration checks, then for the unique
\* column either "continue" (no WATCH) or pipe.watch(ikey)
WHead(pk) ==
    /\ th[pk].pc = "head"
    /\ th' = [th EXCEPT ![pk] =
                 IF PipeConfigError(ThCall(pk)) THEN Raised(@, "ColumnError")
                 ELSE IF \E col \in Unique(cls) : PipeChecks(ThCall(pk), col)
                 THEN [@ EXCEPT !.pc = "hget", !.watching = TRUE, !.dirty = FALSE]
                 ELSE [@ EXCEPT !.pc = "exec"]]
    /\ UNCHANGED <<use_lua, cls, redis, last, isnew, deleted, ret>>

\* pipe.hget(ikey, nuvale): another id raises UniqueKeyViolation after
\* pipe.unwatch(), otherwise pipe.multi() and the commands are queued
WHget(pk) ==
    /\ th[pk].pc = "hget"
    /\ th' = [th EXCEPT ![pk] =
                 IF \E col \in Unique(cls) : PipeConflict(redis, ThCall(pk), col)
                 THEN Raised(@, "UniqueKeyViolation")
                 ELSE [@ EXCEPT !.pc = "exec"]]
    /\ UNCHANGED <<use_lua, cls, redis, last, isnew, deleted, ret>>

\* a loop without "except WatchError: continue": the conflict reaches the
\* caller, which is what the loop must not let happen
WRetrySurfaces(pk) ==
    /\ th[pk].pc = "exec"
    /\ th[pk].watching /\ th[pk].dirty
    /\ th' = [th EXCEPT ![pk] = Raised(@, "WatchError")]
    /\ UNCHANGED <<use_lua, cls, redis, last, isnew, deleted, ret>>

\* pipe.execute() raises WatchError because the watched key was modified:
\* "continue", the loop starts again
WRetry(pk) ==
    /\ th[pk].pc = "exec"
    /\ th[pk].watching /\ th[pk].dirty
    /\ th' = [th EXCEPT ![pk].pc = "head", ![pk].watching = FALSE,
                        ![pk].dirty = FALSE, ![pk].retries = @ + 1]
    /\ UNCHANGED <<use_lua, cls, redis, last, isnew, deleted, ret>>

\* what the commit of another client does to a client that watches the key
Flagged(t) ==
    IF t.watching /\ ~t.dirty THEN [t EXCEPT !.dirty = TRUE, !.hits = @ + 1] ELSE t

\* pipe.execute() runs the queued commands as one MULTI/EXEC, and
\* _apply_changes returns
WExec(pk) ==
    /\ th[pk].pc = "exec"
    /\ ~(th[pk].watching /\ th[pk].dirty)
    /\ redis' = PipeCommit(redis, ThCall(pk))
    /\ th' = [i \in Ids |->
                 IF i = pk THEN [th[i] EXCEPT !.pc = "tail", !.watching = FALSE]
                 ELSE IF TouchesUidx(redis, ThCall(pk)) THEN Flagged(th[i])
                 ELSE th[i]]
    /\ UNCHANGED <<use_lua, cls, last, isnew, deleted, ret>>

\* the rest of save() or delete() after _apply_changes has returned: the
\* flags and _last of the entity, then the secondary structures (one ZADD
\* or ZREM for a column that is not a text column); val are the attributes
\* of the entity that delete() reads there
WTail(pk, val) ==
    /\ th[pk].pc = "tail"
    /\ IF th[pk].op = "save"
       THEN /\ redis' = SaveIndexed(redis, pk, th[pk].new)
            /\ last' = [last EXCEPT ![pk] = Encoded(th[pk].new)]
            /\ isnew' = [isnew EXCEPT ![pk] = FALSE]
            /\ deleted' = [deleted EXCEPT ![pk] = FALSE]
       ELSE /\ redis' = DeleteIndexed(redis, pk, val)
            /\ deleted' = [deleted EXCEPT ![pk] = TRUE]
            /\ UNCHANGED <<last, isnew>>
    /\ th' = [th EXCEPT ![pk] = Raised(@, "ok")]
    /\ UNCHANGED <<use_lua, cls, ret>>

\* the models whose saves reach the optimistic path or its configuration
\* check; scripting has been disabled
InitWatch ==
    /\ Init
    /\ ~use_lua
    /\ cls \in {"Account", "Pair"}

NextWatch ==
    \/ \E pk \in Ids, full \in BOOLEAN : \E new \in NewMaps(cls, pk) :
         WBeginSave(pk, new, full) /\ UNCHANGED <<defined, queryVars, sessionVars>>
    \/ \E pk \in Ids : WBeginDelete(pk) /\ UNCHANGED <<defined, queryVars, sessionVars>>
    \/ \E pk \in Ids : WHead(pk) /\ UNCHANGED <<defined, queryVars, sessionVars>>
    \/ \E pk \in Ids : WHget(pk) /\ UNCHANGED <<defined, queryVars, sessionVars>>
    \/ \E pk \in Ids : WRetry(pk) /\ UNCHANGED <<defined, queryVars, sessionVars>>
    \/ \E pk \in Ids : WExec(pk) /\ UNCHANGED <<defined, queryVars, sessionVars>>
    \/ \E pk \in Ids : \E val \in NewMaps(cls, pk) :
         WTail(pk, val) /\ UNCHANGED <<defined, queryVars, sessionVars>>

SpecWatch == InitWatch /\ [][NextWatch]_vars

\* ------------------------------------ the optimistic path, calls that run on
\* A client that has started a call keeps executing it: the steps of the
\* call of each entity are taken as long as they are possible (the start of
\* a call is up to the caller).  The calls write the unique column of
\* Account and leave its indexed column null.
ThreadStep(pk) ==
    /\ \/ WHead(pk) \/ WHget(pk) \/ WRetry(pk) \/ WExec(pk)
       \/ \E val \in NewMaps(cls, pk) : WTail(pk, val)
    /\ UNCHANGED <<defined, queryVars, sessionVars>>

UniqueOnly(pk) == {m \in NewMaps(cls, pk) : DOMAIN m \subseteq Unique(cls) \cup {Pkey}}

InitWatchFair == InitWatch /\ cls = "Account"

NextWatchFair ==
    \/ \E pk \in Ids, full \in BOOLEAN : \E new \in UniqueOnly(pk) :
         WBeginSave(pk, new, full) /\ UNCHANGED <<defined, queryVars, sessionVars>>
    \/ \E pk \in Ids : WBeginDelete(pk) /\ UNCHANGED <<defined, queryVars, sessionVars>>
    \/ \E pk \in Ids : WHead(pk) /\ UNCHANGED <<defined, queryVars, sessionVars>>
    \/ \E pk \in Ids : WHget(pk) /\ UNCHANGED <<defined, queryVars, sessionVars>>
    \/ \E pk \in Ids : WRetry(pk) /\ UNCHANGED <<defined, queryVars, sessionVars>>
    \/ \E pk \in Ids : WExec(pk) /\ UNCHANGED <<defined, queryVars, sessionVars>>
    \/ \E pk \in Ids : \E val \in UniqueOnly(pk) :
         WTail(pk, val) /\ UNCHANGED <<defined, queryVars, sessionVars>>

SpecWatchFair ==
    /\ InitWatchFair
    /\ [][NextWatchFair]_vars
    /\ \A pk \in Ids : WF_vars(ThreadStep(pk))

\* ------------------------------------- the flag and the model definitions
\* The program toggles USE_LUA and defines its model classes in any order,
\* and saves and deletes entities of cls once cls is defined.
\* NumSchemaIds bounds the entities it uses meanwhile.
NumSchemaIds == 1

SchemaIds == {i \in Ids : i <= NumSchemaIds}

\* the metaclass accepts every class body (its USE_LUA checks are missing)
DefineUnchecked(lua, m) == FALSE

\* the metaclass raises ColumnError: a prefix or suffix index, a second
\* unique column or unique_together in the class body while USE_LUA is off
DefineFails(lua, m) ==
    /\ ~lua
    /\ \/ Prefix(m) # {}
       \/ Suffix(m) # {}
       \/ Cardinality(Unique(m)) > 1
       \/ UniqueTogether(m) # {}

\* what a class statement leaves in ret
Defining(outcome) ==
    [op |-> "define", pk |-> 0, outcome |-> outcome, first |-> FALSE,
     removed |-> FALSE]

\* _enable_lua_writes()
EnableLua ==
    /\ ~use_lua
    /\ use_lua' = TRUE
    /\ UNCHANGED <<cls, redis, last, isnew, deleted, ret, th, defined, queryVars, sessionVars>>

\* _disable_lua_writes(): the models defined so far are not validated again
DisableLua ==
    /\ use_lua
    /\ use_lua' = FALSE
    /\ UNCHANGED <<cls, redis, last, isnew, deleted, ret, th, defined, queryVars, sessionVars>>

\* "class m(Model): ..." runs _ModelMetaclass.__new__: ORMError for a name
\* already in MODELS, ColumnError from the checks, else MODELS[name] = model
Define(m) ==
    /\ IF m \in defined
       THEN ret' = Defining("ORMError") /\ UNCHANGED defined
       ELSE IF DefineFails(use_lua, m)
       THEN ret' = Defining("ColumnError") /\ UNCHANGED defined
       ELSE ret' = Defining("ok") /\ defined' = defined \cup {m}
    /\ UNCHANGED <<use_lua, cls, redis, last, isnew, deleted, th, queryVars, sessionVars>>

\* save() and delete() of an entity of cls, which exists once cls is defined
SchemaSave(pk, new, full) ==
    /\ cls \in defined
    /\ ~deleted[pk]
    /\ Save(pk, new, full)
    /\ UNCHANGED <<th, defined, queryVars, sessionVars>>

SchemaDelete(pk, val) ==
    /\ cls \in defined
    /\ ~deleted[pk]
    /\ Delete(pk, val)
    /\ UNCHANGED <<th, defined, queryVars, sessionVars>>

\* the module has been imported: USE_LUA = True, MODELS is empty
InitSchema ==
    /\ use_lua = TRUE
    /\ cls \in Models
    /\ redis = EmptyRedis
    /\ last = [i \in Ids |-> EmptyMap]
    /\ isnew = [i \in Ids |-> TRUE]
    /\ deleted = [i \in Ids |-> FALSE]
    /\ ret = [op |-> "none", pk |-> 0, outcome |-> "none", first |-> FALSE,
              removed |-> FALSE]
    /\ th = [i \in Ids |-> IdleThread]
    /\ defined = {}
    /\ qs = [self |-> NewQuery, result |-> NewQuery]
    /\ heap = <<>>
    /\ gen = IdleGen
    /\ cache = <<>>
    /\ qret = NoCall
    /\ ent = [i \in Ids |-> NewEntity(i)]
    /\ session = Ids
    /\ dirty = {}
    /\ got = NoGet
    /\ it = NoWalk

NextSchema ==
    \/ EnableLua
    \/ DisableLua
    \/ \E m \in Models : Define(m)
    \/ \E pk \in SchemaIds, full \in BOOLEAN : \E new \in NewMaps(cls, pk) :
         SchemaSave(pk, new, full)
    \/ \E pk \in SchemaIds : \E val \in NewMaps(cls, pk) : SchemaDelete(pk, val)

SpecSchema == InitSchema /\ [][NextSchema]_vars

\* ---------------------------------------------------------- Query calls
\* The program holds one Query in a variable (qs.self), calls its methods,
\* and may assign the Query a call returned (qs.result) to the variable.
\* A generator that iter_result() returned is consumed by a for loop before
\* the next call.  MaxLists bounds the list objects passed as filters.
MaxLists == 1

\* what a Query call leaves in qret
Answer(op, outcome, store, value) ==
    [op |-> op, outcome |-> outcome, store |-> store, value |-> value]

\* the call returns the Query q
ReturnsQuery(op, q) ==
    /\ gen.state = "none"
    /\ qs' = [qs EXCEPT !.result = q]
    /\ qret' = Answer(op, "ok", FALSE, 0)
    /\ UNCHANGED <<gen, cache>>

\* the call raises before it has built a Query or reached the store
RaisesEarly(op, outcome) ==
    /\ gen.state = "none"
    /\ qret' = Answer(op, outcome, FALSE, 0)
    /\ UNCHANGED <<qs, heap, gen, cache>>

\* replace(filters=...): the copy holds the very object passed, a tuple or
\* a list
QReplace(kind) ==
    /\ IF kind = "list"
       THEN /\ Len(heap) < MaxLists
            /\ heap' = Append(heap, <<FilterOf("filter")>>)
            /\ ReturnsQuery("replace",
                 [qs.self EXCEPT !.filters = <<>>, !.ref = Len(heap) + 1])
       ELSE /\ UNCHANGED heap
            /\ ReturnsQuery("replace",
                 [qs.self EXCEPT !.filters = <<FilterOf("filter")>>, !.ref = 0])
    /\ UNCHANGED modelVars /\ UNCHANGED <<defined, sessionVars>>

\* filter(n=1), and filter(n=(1, 2, 3)), which raises QueryError:
\* cur_filters = list(self._filters) is a copy, the result holds a tuple
QFilter(kind) ==
    /\ Len(Filters(qs.self, heap)) < MaxFilters
    /\ IF kind = "triple"
       THEN RaisesEarly("filter", "QueryError")
       ELSE /\ ReturnsQuery("filter",
                 [qs.self EXCEPT
                    !.filters = Append(Filters(qs.self, heap), FilterOf("filter")),
                    !.ref = 0])
            /\ UNCHANGED heap
    /\ UNCHANGED modelVars /\ UNCHANGED <<defined, sessionVars>>

\* "self._filters + tuple(new)" of startswith, endswith and like: a
\* TypeError when _filters is a list
Concat(op) ==
    /\ Len(Filters(qs.self, heap)) < MaxFilters
    /\ IF qs.self.ref # 0
       THEN RaisesEarly(op, "TypeError")
       ELSE /\ ReturnsQuery(op,
                 [qs.self EXCEPT !.filters = Append(qs.self.filters, FilterOf(op))])
            /\ UNCHANGED heap
    /\ UNCHANGED modelVars /\ UNCHANGED <<defined, sessionVars>>

QStartswith == Concat("startswith")

QEndswith == Concat("endswith")

QLike == Concat("like")

\* order_by(column)
QOrderBy(col) ==
    /\ ReturnsQuery("order_by", [qs.self EXCEPT !.order_by = col])
    /\ UNCHANGED heap
    /\ UNCHANGED modelVars /\ UNCHANGED <<defined, sessionVars>>

\* limit(offset, count)
QLimit(offset, cnt) ==
    /\ ReturnsQuery("limit", [qs.self EXCEPT !.limit = <<offset, cnt>>])
    /\ UNCHANGED heap
    /\ UNCHANGED modelVars /\ UNCHANGED <<defined, sessionVars>>

\* count(): "filters = self._filters; filters += (order,)" extends a list in
\* place and builds a new tuple otherwise; QueryError when filters is empty,
\* else the answer of GeneralIndex.count
QCount ==
    /\ gen.state = "none"
    /\ LET grown == OrderGiven(qs.self) /\ qs.self.ref # 0
           filters == IF OrderGiven(qs.self)
                      THEN Append(Filters(qs.self, heap),
                                  OrderColumn(qs.self.order_by))
                      ELSE Filters(qs.self, heap)
       IN /\ grown => Len(heap[qs.self.ref]) < MaxFilters
          /\ heap' = IF grown THEN [heap EXCEPT ![qs.self.ref] = filters]
                     ELSE heap
          /\ IF Len(filters) = 0
             THEN qret' = Answer("count", "QueryError", FALSE, 0)
             ELSE \E n \in 0..MaxHits : qret' = Answer("count", "ok", TRUE, n)
    /\ UNCHANGED <<qs, gen, cache>>
    /\ UNCHANGED modelVars /\ UNCHANGED <<defined, sessionVars>>

\* q._search(): QueryError, or GeneralIndex.search(conn, filters, order_by,
\* *limit), which leaves no structure behind without a timeout
Search(op, q) ==
    /\ gen.state = "none"
    /\ IF MissingCriteria(q, heap)
       THEN qret' = Answer(op, "QueryError", FALSE, 0)
       ELSE qret' = Answer(op, "ok", TRUE, 0)
    /\ UNCHANGED <<qs, heap, gen, cache>>
    /\ UNCHANGED modelVars /\ UNCHANGED <<defined, sessionVars>>

\* execute(), and all(), its alias
QExecute == Search("execute", qs.self)

QAll == Search("all", qs.self)

\* first(): self.limit(lim[0], 1)._search() on a copy
QFirst ==
    Search("first",
           [qs.self EXCEPT !.limit =
              <<IF qs.self.limit # <<>> THEN qs.self.limit[1] ELSE 0, 1>>])

\* the body of cached_result(timeout) on the Query q: the outcome and the
\* cached results afterwards; the search is called with the timeout and
\* without the limit
CachedResult(q, h, timeout) ==
    IF MissingCriteria(q, h) \/ TimeoutTooSmall(timeout)
    THEN [outcome |-> "QueryError", store |-> FALSE, cache |-> cache]
    ELSE [outcome |-> "ok", store |-> TRUE,
          cache |-> Append(cache, [ttl |-> IntOf(timeout), limit |-> <<>>])]

\* cached_result(timeout)
QCachedResult(timeout) ==
    /\ gen.state = "none"
    /\ Len(cache) < MaxCache
    /\ LET res == CachedResult(qs.self, heap, timeout)
       IN /\ qret' = Answer("cached_result", res.outcome, res.store, 0)
          /\ cache' = res.cache
    /\ UNCHANGED <<qs, heap, gen>>
    /\ UNCHANGED modelVars /\ UNCHANGED <<defined, sessionVars>>

\* iter_result(timeout) is a generator function: the call runs none of its
\* body and returns a generator
QIterResult(timeout) ==
    /\ gen.state = "none"
    /\ gen' = [state |-> "new", q |-> qs.self, timeout |-> timeout]
    /\ qret' = Answer("iter_result", "generator", FALSE, 0)
    /\ UNCHANGED <<qs, heap, cache>>
    /\ UNCHANGED modelVars /\ UNCHANGED <<defined, sessionVars>>

\* next() on the generator.  The first runs cached_result(timeout), then
\* zcard, and for a result that is not empty expire(key, timeout) with the
\* timeout as passed, which the store refuses unless it is whole, and yields
\* the first entity; the next finds the page exhausted.
QNext ==
    /\ gen.state # "none"
    /\ IF gen.state = "open"
       THEN /\ qret' = Answer("next", "StopIteration", FALSE, 0)
            /\ gen' = IdleGen
            /\ UNCHANGED cache
       ELSE /\ Len(cache) < MaxCache
            /\ LET res == CachedResult(gen.q, heap, gen.timeout)
               IN /\ cache' = res.cache
                  /\ IF res.outcome # "ok"
                     THEN /\ qret' = Answer("next", res.outcome, FALSE, 0)
                          /\ gen' = IdleGen
                     ELSE \E n \in 0..MaxHits :
                            IF n = 0
                            THEN /\ qret' = Answer("next", "StopIteration", TRUE, 0)
                                 /\ gen' = IdleGen
                            ELSE IF ~Whole(gen.timeout)
                            THEN /\ qret' = Answer("next", "ResponseError", TRUE, 0)
                                 /\ gen' = IdleGen
                            ELSE /\ qret' = Answer("next", "ok", TRUE, n)
                                 /\ gen' = [gen EXCEPT !.state = "open"]
    /\ UNCHANGED <<qs, heap>>
    /\ UNCHANGED modelVars /\ UNCHANGED <<defined, sessionVars>>

\* "q = <the Query the last call returned>"
QRebind ==
    /\ gen.state = "none"
    /\ qs.self # qs.result
    /\ qs' = [qs EXCEPT !.self = qs.result]
    /\ UNCHANGED <<heap, gen, cache, qret>>
    /\ UNCHANGED modelVars /\ UNCHANGED <<defined, sessionVars>>

\* the store deletes the oldest cached result when its time has run out
Expired ==
    /\ cache # <<>>
    /\ cache' = Tail(cache)
    /\ UNCHANGED <<qs, heap, gen, qret>>
    /\ UNCHANGED modelVars /\ UNCHANGED <<defined, sessionVars>>

\* the queries of one model; what the store holds plays no part
InitQuery ==
    /\ Init
    /\ use_lua
    /\ cls = "Account"

NextQuery ==
    \/ \E kind \in {"tuple", "list"} : QReplace(kind)
    \/ \E kind \in {"number", "triple"} : QFilter(kind)
    \/ QStartswith
    \/ QEndswith
    \/ QLike
    \/ \E col \in {"n", "-n"} : QOrderBy(col)
    \/ \E offset \in 0..1 : QLimit(offset, 2)
    \/ QCount
    \/ QExecute
    \/ QAll
    \/ QFirst
    \/ \E timeout \in Timeouts : QCachedResult(timeout)
    \/ \E timeout \in Timeouts : QIterResult(timeout)
    \/ QNext
    \/ QRebind
    \/ Expired

SpecQuery == InitQuery /\ [][NextQuery]_vars

\* ------------------------- save() of two clients, command by command
\* Each client holds one entity and saves it; _apply_changes is one script
\* call, and the commands of the loop over the indexed columns that follows
\* it interleave with those of the other client.

\* the position of a client inside the loop: the columns still to visit,
\* the column at hand and the list read for it
InLoop(new, todo, pc, col, list) ==
    [pc |-> pc, new |-> new, todo |-> todo, col |-> col, list |-> list]

\* save() up to line 629: _apply_changes, then _new, _last and _deleted
SaveApply(pk, new, full) ==
    /\ th[pk].pc = "idle"
    /\ \E res \in SaveResults(pk, new, full) :
         /\ ret' = Returned("save", SaveCall(pk, new, full), res)
         /\ redis' = res.redis
         /\ IF res.outcome = "ok"
            THEN /\ last' = [last EXCEPT ![pk] = Encoded(new)]
                 /\ isnew' = [isnew EXCEPT ![pk] = FALSE]
                 /\ deleted' = [deleted EXCEPT ![pk] = FALSE]
                 /\ th' = [th EXCEPT ![pk] =
                             InLoop(new, Index(cls), "loop", "", <<>>)]
            ELSE UNCHANGED <<last, isnew, deleted, th>>
    /\ UNCHANGED <<use_lua, cls>>

\* "for attr in cls._columns": the next indexed column; a null value is
\* passed over, a number is written with its score, a text is added with
\* zadd(index_key, self.pk, 0); after the last column save() returns
SaveLoop(pk) ==
    /\ th[pk].pc = "loop"
    /\ IF th[pk].todo = {}
       THEN th' = [th EXCEPT ![pk] = IdleThread] /\ UNCHANGED redis
       ELSE \E a \in th[pk].todo :
              IF a \notin DOMAIN th[pk].new
              THEN /\ th' = [th EXCEPT ![pk].todo = @ \ {a}]
                   /\ UNCHANGED redis
              ELSE IF ColType(a) = "Text"
              THEN /\ redis' = [redis EXCEPT !.indexed = Put(@, <<a, pk>>, 0)]
                   /\ th' = [th EXCEPT ![pk].pc = "hget", ![pk].col = a]
              ELSE /\ redis' = [redis EXCEPT
                                  !.indexed = Put(@, <<a, pk>>, th[pk].new[a])]
                   /\ th' = [th EXCEPT ![pk].todo = @ \ {a}]
    /\ UNCHANGED <<use_lua, cls, last, isnew, deleted, ret>>

\* pk_list = conn.hget(mappings_key, val)
SaveHget(pk) ==
    /\ th[pk].pc = "hget"
    /\ th' = [th EXCEPT
                ![pk].pc = "hset",
                ![pk].list = PkList(redis, <<th[pk].col, th[pk].new[th[pk].col]>>)]
    /\ UNCHANGED <<use_lua, cls, redis, last, isnew, deleted, ret>>

\* "if not pk_list: hset [self.pk]", else the list read with self.pk
\* appended unless it is in it
SaveHset(pk) ==
    /\ th[pk].pc = "hset"
    /\ LET f == <<th[pk].col, th[pk].new[th[pk].col]>>
           pk_list == th[pk].list
       IN redis' =
            IF \E i \in DOMAIN pk_list : pk_list[i] = pk THEN redis
            ELSE [redis EXCEPT !.mappings = Put(@, f, Append(pk_list, pk))]
    /\ th' = [th EXCEPT ![pk].pc = "loop", ![pk].todo = @ \ {th[pk].col}]
    /\ UNCHANGED <<use_lua, cls, last, isnew, deleted, ret>>

\* documents with an indexed text, under the scripted path
InitSteps ==
    /\ Init
    /\ use_lua
    /\ cls = "Doc"

NextSteps ==
    \/ \E pk \in Ids, full \in BOOLEAN : \E new \in NewMaps(cls, pk) :
         SaveApply(pk, new, full) /\ UNCHANGED <<defined, queryVars, sessionVars>>
    \/ \E pk \in Ids : SaveLoop(pk) /\ UNCHANGED <<defined, queryVars, sessionVars>>
    \/ \E pk \in Ids : SaveHget(pk) /\ UNCHANGED <<defined, queryVars, sessionVars>>
    \/ \E pk \in Ids : SaveHset(pk) /\ UNCHANGED <<defined, queryVars, sessionVars>>

SpecSteps == InitSteps /\ [][NextSteps]_vars

\* ------------------------------------------------------ Model.filter_by
\* A criterion is a keyword argument: attr=value, or attr__op=value for a
\* numeric column.  MaxCriteria bounds the keyword arguments of one call.
MaxCriteria == 2

\* equality and one of the four range operations, which differ in their
\* bounds only
FilterOps == {"eq", "lt"}

\* the keyword arguments a call can carry for a model: the keys are the
\* indexed columns, with an operation for a numeric one
Criteria(m) ==
    {[attr |-> a, op |-> "eq", value |-> v] :
       a \in {x \in Index(m) : ColType(x) = "Text"}, v \in ColVals("t")}
    \cup {[attr |-> a, op |-> o, value |-> v] :
            a \in {x \in Index(m) : ColType(x) # "Text"}, o \in FilterOps,
            v \in Vals}

\* kwargs.iteritems(): the arguments in some order, no key twice
CriteriaLists(m) ==
    {l \in UNION {[1..k -> Criteria(m)] : k \in 0..MaxCriteria} :
       \A i, j \in DOMAIN l :
         i # j => <<l[i].attr, l[i].op>> # <<l[j].attr, l[j].op>>}

\* the ids a criterion finds in the secondary structures: json.loads of the
\* list mapped to a text, zrangebyscore over the scores of a numeric column
PkListOf(r, c) ==
    IF ColType(c.attr) = "Text"
    THEN {PkList(r, <<c.attr, c.value>>)[i] :
            i \in DOMAIN PkList(r, <<c.attr, c.value>>)}
    ELSE {pk \in Ids :
            /\ <<c.attr, pk>> \in DOMAIN r.indexed
            /\ CASE c.op = "eq" -> r.indexed[<<c.attr, pk>>] = c.value
                 [] c.op = "lt" -> r.indexed[<<c.attr, pk>>] < c.value}

\* "if mappings is None: continue" for a text without a mapping, and
\* "if not pk_str_list: continue" for a range that finds no id
Skipped(r, c) ==
    IF ColType(c.attr) = "Text"
    THEN <<c.attr, c.value>> \notin DOMAIN r.mappings
    ELSE c.op # "eq" /\ PkListOf(r, c) = {}

\* the loop over the arguments: result is None (<<>>) until the first
\* criterion that is not skipped, then the ids of pk_list that it contains
RECURSIVE FilterLoop(_, _, _)
FilterLoop(r, crits, result) ==
    IF crits = <<>> THEN result
    ELSE LET c == Head(crits)
         IN IF Skipped(r, c) THEN FilterLoop(r, Tail(crits), result)
            ELSE IF result = <<>>
            THEN FilterLoop(r, Tail(crits), <<PkListOf(r, c)>>)
            ELSE FilterLoop(r, Tail(crits), <<result[1] \cap PkListOf(r, c)>>)

\* the ids filter_by selects
Selected(r, crits) ==
    LET result == FilterLoop(r, crits, <<>>)
    IN IF result = <<>> THEN {} ELSE result[1]

\* cls.filter_by(**kwargs): all_instances() (None) without arguments; the
\* empty list when no id is selected; otherwise cls.get([pk],
\* allow_create=True) for the first id, an argument Model.get does not
\* take
FilterBy(crits) ==
    /\ qret' = Answer("filter_by",
                      IF crits = <<>> THEN "None"
                      ELSE IF Selected(redis, crits) = {} THEN "ok"
                      ELSE "TypeError",
                      crits # <<>>,
                      [crits |-> crits, ids |-> Selected(redis, crits)])
    /\ UNCHANGED <<qs, heap, gen, cache>>
    /\ UNCHANGED modelVars /\ UNCHANGED <<defined, sessionVars>>

\* a model with a numeric index or one with a text index; the program
\* saves and deletes its entities and filters between the calls
InitFilter ==
    /\ Init
    /\ use_lua
    /\ cls \in {"Account", "Doc"}

NextFilter ==
    \/ \E pk \in Ids, full \in BOOLEAN : \E new \in NewMaps(cls, pk) :
         /\ ~deleted[pk] /\ Save(pk, new, full)
         /\ qret' = NoCall
         /\ UNCHANGED <<th, defined, qs, heap, gen, cache, sessionVars>>
    \/ \E pk \in Ids : \E val \in NewMaps(cls, pk) :
         /\ ~deleted[pk] /\ Delete(pk, val)
         /\ qret' = NoCall
         /\ UNCHANGED <<th, defined, qs, heap, gen, cache, sessionVars>>
    \/ \E crits \in CriteriaLists(cls) : FilterBy(crits)

SpecFilter == InitFilter /\ [][NextFilter]_vars

\* ------------------------------- entities, the session and paged walks
\* One program works on the entities of one model.  It holds one entity
\* object for each primary key: the one it constructed, or the one Model.get
\* loaded last.  A for loop consumes the generator of iter_result(); its body
\* assigns attributes, saves, deletes and gets entities between two yields.
MaxIdList == 2
MaxPageSize == 2

\* the class attributes track_dirty_fields and db_writable_fields
TrackDirtyFields(m) == m = "Account"

DbWritableFields(m) == IF m = "Account" THEN {"n"} ELSE {}

\* the timeouts a walk is given, in half seconds: 0 and 1 second
WalkTimeouts == {0, 2}

\* the lists of ids passed to Model.get
IdLists ==
    UNION {[1..k -> Ids] : k \in 0..MaxIdList}

\* every field counted as modified, whatever its value
AllFieldNames(e) == (DOMAIN e.data) \cup (DOMAIN e.orig)

\* _modified_field_names: the fields of _data that differ from _orig_data
ModifiedFieldNames(e) ==
    {k \in (DOMAIN e.data) \cup (DOMAIN e.orig) :
       \/ k \notin DOMAIN e.data
       \/ k \notin DOMAIN e.orig
       \/ e.data[k] # e.orig[k]}

\* cls(_loading=True, **data): the attributes decoded from the primary hash
Hydrated(h) ==
    LET data == [a \in DOMAIN h |-> FromRedis(a, h[a])]
    IN [data |-> data, orig |-> data, modified |-> FALSE]

\* entity.attr = v (Column.__set__): _data[attr] = v, _modified = True
Assign(pk, a, v) ==
    /\ it.state # "running"
    /\ ~deleted[pk]
    /\ ent' = [ent EXCEPT ![pk].data = Put(@, a, v), ![pk].modified = TRUE]
    /\ got' = NoGet
    /\ UNCHANGED <<session, dirty, it>>
    /\ ret' = NoRet
    /\ UNCHANGED <<use_lua, cls, redis, last, isnew, deleted, th, defined,
                   queryVars>>

\* entity.attr = None
AssignNone(pk, a) ==
    /\ it.state # "running"
    /\ ~deleted[pk]
    /\ ent' = [ent EXCEPT ![pk].data = Drop(@, {a}), ![pk].modified = TRUE]
    /\ got' = NoGet
    /\ UNCHANGED <<session, dirty, it>>
    /\ ret' = NoRet
    /\ UNCHANGED <<use_lua, cls, redis, last, isnew, deleted, th, defined,
                   queryVars>>

\* a save() that clears _modified before it calls _apply_changes
EntitySaveEager(pk, full) ==
    /\ it.state # "running"
    /\ ~deleted[pk]
    /\ Save(pk, ent[pk].data, full)
    /\ ent' = [ent EXCEPT ![pk].orig = ent[pk].data, ![pk].modified = FALSE]
    /\ dirty' = dirty
    /\ got' = NoGet
    /\ UNCHANGED <<session, it>>
    /\ UNCHANGED <<th, defined, queryVars>>

\* entity.save(full): new = self.to_dict(), _apply_changes; when it has
\* returned, the dirty fields are recorded (for a class that tracks them and
\* an entity that was not new), _modified is cleared and _orig_data is the
\* copy of _data, and the indexed columns are written
EntitySave(pk, full) ==
    /\ it.state # "running"
    /\ ~deleted[pk]
    /\ Save(pk, ent[pk].data, full)
    /\ IF ret'.outcome = "ok"
       THEN /\ ent' = [ent EXCEPT ![pk].orig = ent[pk].data,
                                   ![pk].modified = FALSE]
            /\ dirty' =
                 IF TrackDirtyFields(cls) /\ ~isnew[pk]
                 THEN dirty \cup
                      {<<pk, f>> : f \in ModifiedFieldNames(ent[pk])
                                          \cap DbWritableFields(cls)}
                 ELSE dirty
       ELSE UNCHANGED <<ent, dirty>>
    /\ got' = NoGet
    /\ UNCHANGED <<session, it>>
    /\ UNCHANGED <<th, defined, queryVars>>

\* entity.delete(): session.forget(self), _apply_changes(delete=True); when
\* it has returned, the dirty set is deleted (for a class that tracks dirty
\* fields), _modified and _deleted are set and the indexed columns removed
EntityDelete(pk) ==
    /\ it.state # "running"
    /\ ~deleted[pk]
    /\ Delete(pk, ent[pk].data)
    /\ session' = session \ {pk}
    /\ IF ret'.outcome = "ok"
       THEN /\ ent' = [ent EXCEPT ![pk].modified = TRUE]
            /\ dirty' = IF TrackDirtyFields(cls)
                        THEN {d \in dirty : d[1] # pk}
                        ELSE dirty
       ELSE UNCHANGED <<ent, dirty>>
    /\ got' = NoGet
    /\ UNCHANGED it
    /\ UNCHANGED <<th, defined, queryVars>>

\* session.forget(entity): the session no longer knows the entity, which the
\* program keeps
Forget(pk) ==
    /\ it.state # "running"
    /\ pk \in session
    /\ session' = session \ {pk}
    /\ got' = NoGet
    /\ UNCHANGED <<ent, dirty, it>>
    /\ ret' = NoRet
    /\ UNCHANGED <<use_lua, cls, redis, last, isnew, deleted, th, defined,
                   queryVars>>

\* a get that keeps the ids it found no entity for
GetOutUnfiltered(s, r, ids) ==
    [k \in DOMAIN ids |->
       [pk |-> ids[k],
        from |-> IF ids[k] \in s THEN "session"
                 ELSE IF r.hash[ids[k]] # EmptyMap THEN "store" ELSE "None"]]

\* the list Model.get(ids) builds: out = map(session.get, pks); an id the
\* session does not know is loaded with hgetall when it has data; "get rid
\* of missing models".  Each element names the id and where the entity is
\* from.
GetOut(s, r, ids) ==
    LET out == [k \in DOMAIN ids |->
                  [pk |-> ids[k],
                   from |-> IF ids[k] \in s THEN "session"
                            ELSE IF r.hash[ids[k]] # EmptyMap THEN "store"
                            ELSE "None"]]
    IN IF \E k \in DOMAIN out : out[k].from \notin {"session"}
       THEN SelectSeq(out, LAMBDA x : x.from # "None")
       ELSE out

\* what Model.get returns: the list, or for a single id "out[0] if out else
\* None"
GetValue(out, single) ==
    IF ~single THEN out
    ELSE IF out = <<>> THEN <<[pk |-> 0, from |-> "None"]>> ELSE <<out[1]>>

\* the ids Model.get loaded from the store
Loaded(out) == {out[k].pk : k \in {j \in DOMAIN out : out[j].from = "store"}}

\* the entities, their fields and the session after Model.get has built out:
\* every loaded entity has been constructed from the primary hash, which
\* adds it to the session
AfterGet(out) ==
    /\ ent' = [pk \in Ids |-> IF pk \in Loaded(out)
                               THEN Hydrated(redis.hash[pk]) ELSE ent[pk]]
    /\ last' = [pk \in Ids |-> IF pk \in Loaded(out)
                                THEN redis.hash[pk] ELSE last[pk]]
    /\ isnew' = [pk \in Ids |-> IF pk \in Loaded(out) THEN FALSE ELSE isnew[pk]]
    /\ deleted' = [pk \in Ids |-> IF pk \in Loaded(out) THEN FALSE
                                   ELSE deleted[pk]]
    /\ session' = session \cup Loaded(out)

\* Model.get(ids), and Model.get(id) for a list of one id with single
Get(ids, single) ==
    /\ it.state # "running"
    /\ single => Len(ids) = 1
    /\ LET out == GetOut(session, redis, ids)
       IN /\ AfterGet(out)
          /\ got' = [ids |-> ids, single |-> single, out |-> GetValue(out, single)]
    /\ UNCHANGED <<dirty, it>>
    /\ ret' = NoRet
    /\ UNCHANGED <<use_lua, cls, redis, th, defined, queryVars>>

\* what refresh() and refresh(force=True) leave in ret
Refreshed(pk, force, outcome) ==
    [op |-> IF force THEN "refresh_force" ELSE "refresh", pk |-> pk,
     outcome |-> outcome, first |-> isnew[pk], removed |-> FALSE]

\* a refresh() that reloads a modified entity whether force is given or not
RefreshForced(pk, force) ==
    /\ it.state # "running"
    /\ IF deleted[pk]
       THEN /\ ret' = Refreshed(pk, force, "returned")
            /\ UNCHANGED <<ent, last, isnew, deleted, session>>
       ELSE IF isnew[pk]
       THEN /\ ret' = Refreshed(pk, force, "InvalidOperation")
            /\ UNCHANGED <<ent, last, isnew, deleted, session>>
       ELSE /\ ret' = Refreshed(pk, force, "reloaded")
            /\ AfterGet(<<[pk |-> pk, from |-> "store"]>>)
    /\ got' = NoGet
    /\ UNCHANGED <<dirty, it>>
    /\ UNCHANGED <<use_lua, cls, redis, th, defined, queryVars>>

\* entity.refresh(force): nothing for a deleted entity; InvalidOperation
\* for a modified entity without force and for a new entity; otherwise
\* hgetall of the primary hash and self.__init__(_loading=True, **data)
Refresh(pk, force) ==
    /\ it.state # "running"
    /\ IF deleted[pk]
       THEN /\ ret' = Refreshed(pk, force, "returned")
            /\ UNCHANGED <<ent, last, isnew, deleted, session>>
       ELSE IF (ent[pk].modified /\ ~force) \/ isnew[pk]
       THEN /\ ret' = Refreshed(pk, force, "InvalidOperation")
            /\ UNCHANGED <<ent, last, isnew, deleted, session>>
       ELSE /\ ret' = Refreshed(pk, force, "reloaded")
            /\ AfterGet(<<[pk |-> pk, from |-> "store"]>>)
    /\ got' = NoGet
    /\ UNCHANGED <<dirty, it>>
    /\ UNCHANGED <<use_lua, cls, redis, th, defined, queryVars>>

\* the ordered id lists a search can cache: the records that have data and
\* match the criteria, in the order of the query
RECURSIVE Orderings(_)
Orderings(S) ==
    IF S = {} THEN {<<>>}
    ELSE UNION {{<<x>> \o l : l \in Orderings(S \ {x})} : x \in S}

SearchResults(r) ==
    UNION {Orderings(S) : S \in SUBSET {pk \in Ids : r.hash[pk] # EmptyMap}}

\* zrange(key, i, i + pagesize - 1) of the cached result, which is empty
\* once the key has expired
Zrange(w) ==
    IF ~w.alive \/ w.i >= Len(w.key) THEN <<>>
    ELSE SubSeq(w.key, w.i + 1,
                IF w.i + w.pagesize <= Len(w.key) THEN w.i + w.pagesize
                ELSE Len(w.key))

\* the ids of the entities of a list Model.get returned
PksOf(out) == [k \in DOMAIN out |-> out[k].pk]

\* q.iter_result(timeout, pagesize) of a Query that has criteria: a
\* generator function, the call runs none of its body
WalkStart(timeout, pagesize) ==
    /\ it.state \in {"none", "done"}
    /\ it' = [NoWalk EXCEPT !.state = "new", !.timeout = timeout,
                            !.pagesize = pagesize]
    /\ UNCHANGED <<ent, session, dirty, got>>
    /\ UNCHANGED <<modelVars, defined, queryVars>>

\* the first next(): key = self.cached_result(timeout), which raises
\* QueryError for a timeout below 1 and caches the result of one search
\* otherwise; range(0, conn.zcard(key), pagesize) reads the size once
WalkSearch ==
    /\ it.state = "new"
    /\ IF TimeoutTooSmall(it.timeout)
       THEN it' = [it EXCEPT !.state = "done"]
       ELSE \E key \in SearchResults(redis) :
              it' = [it EXCEPT !.state = "running", !.key = key,
                               !.alive = TRUE, !.searches = @ + 1,
                               !.n = Len(key)]
    /\ UNCHANGED <<ent, session, dirty, got>>
    /\ UNCHANGED <<modelVars, defined, queryVars>>

\* one turn of the for loop over the pages: conn.expire(key, timeout),
\* ids = conn.zrange(key, i, i+pagesize-1), self._model.get(ids)
WalkPage ==
    /\ it.state \in {"running", "yielded"}
    /\ it.page = <<>>
    /\ it.i < it.n
    /\ LET ids == Zrange(it)
           out == GetOut(session, redis, ids)
       IN /\ AfterGet(out)
          /\ it' = [it EXCEPT !.state = "running", !.expires = @ + 1,
                              !.i = @ + it.pagesize,
                              !.page = PksOf(out),
                              !.reads = Append(@, ids),
                              !.found = @ \o PksOf(out)]
    /\ UNCHANGED <<dirty, got>>
    /\ UNCHANGED <<use_lua, cls, redis, ret, th, defined, queryVars>>

\* a loop body that yields without "session.forget(ent)"
WalkYieldKeeps ==
    /\ it.state \in {"running", "yielded"}
    /\ it.page # <<>>
    /\ it' = [it EXCEPT !.state = "yielded", !.page = Tail(@),
                        !.yielded = Append(@, Head(it.page))]
    /\ UNCHANGED <<ent, session, dirty, got>>
    /\ UNCHANGED <<modelVars, defined, queryVars>>

\* "if not ent._modified: session.forget(ent)", "yield ent"
WalkYield ==
    /\ it.state \in {"running", "yielded"}
    /\ it.page # <<>>
    /\ LET pk == Head(it.page)
       IN /\ session' = IF ent[pk].modified THEN session ELSE session \ {pk}
          /\ it' = [it EXCEPT !.state = "yielded", !.page = Tail(@),
                              !.yielded = Append(@, pk)]
    /\ UNCHANGED <<ent, dirty, got>>
    /\ UNCHANGED <<modelVars, defined, queryVars>>

\* the range is exhausted: the generator returns
WalkStop ==
    /\ it.state \in {"running", "yielded"}
    /\ it.page = <<>>
    /\ it.i >= it.n
    /\ it' = [it EXCEPT !.state = "done"]
    /\ UNCHANGED <<ent, session, dirty, got>>
    /\ UNCHANGED <<modelVars, defined, queryVars>>

\* the store deletes the cached result when its time has run out
WalkExpired ==
    /\ it.state \in {"running", "yielded"}
    /\ it.alive
    /\ it' = [it EXCEPT !.alive = FALSE, !.intact = FALSE]
    /\ UNCHANGED <<ent, session, dirty, got>>
    /\ UNCHANGED <<modelVars, defined, queryVars>>

\* the value the program assigns to a column: one value is enough for two
\* entities to collide on the unique column
NewVals(a) == {v \in ColVals(a) : v = 1}

\* a model with a unique and an indexed column under the scripted path, or
\* a model with two unique columns under the optimistic path, which refuses
\* it
InitSession ==
    /\ Init
    /\ \/ cls = "Account" /\ use_lua
       \/ cls = "Pair" /\ ~use_lua

NextSession ==
    \/ \E pk \in Ids, a \in Columns(cls) \ {Pkey} : \E v \in NewVals(a) :
         Assign(pk, a, v)
    \/ \E pk \in Ids, a \in Columns(cls) \ {Pkey} : AssignNone(pk, a)
    \/ \E pk \in Ids, full \in BOOLEAN : EntitySave(pk, full)
    \/ \E pk \in Ids : EntityDelete(pk)
    \/ \E pk \in Ids : Forget(pk)
    \/ \E ids \in IdLists, single \in BOOLEAN : Get(ids, single)
    \/ \E pk \in Ids, force \in BOOLEAN : Refresh(pk, force)

SpecSession == InitSession /\ [][NextSession]_vars

\* A paged walk with the loop body around it: under the scripted path the
\* body sets the text of a document, saves and deletes.
InitWalk ==
    /\ Init
    /\ cls = "Doc"
    /\ use_lua

NextWalk ==
    \/ \E pk \in Ids : \E v \in ColVals("t") : Assign(pk, "t", v)
    \/ \E pk \in Ids : EntitySave(pk, FALSE)
    \/ \E pk \in Ids : EntityDelete(pk)
    \/ \E timeout \in WalkTimeouts, pagesize \in 1..MaxPageSize :
         WalkStart(timeout, pagesize)
    \/ WalkSearch
    \/ WalkPage
    \/ WalkYield
    \/ WalkStop
    \/ WalkExpired

SpecWalk == InitWalk /\ [][NextWalk]_vars

\* ------------------------------------------------------------- properties
\* the record has been saved and not deleted
Live(pk) == ~isnew[pk] /\ ~deleted[pk]

\* the callers still hold the entity: the old map of its next call is the
\* new map of its last call
InStep(pk) == ~deleted[pk]

\* the index entries of a record in the four kinds of structure
EntriesOf(r, pk) ==
    [keys |-> {e[1] : e \in {x \in r.idx : x[2] = pk}},
     scored |-> {f[1] : f \in {x \in DOMAIN r.zidx : x[2] = pk}},
     prefix |-> {<<e[1], e[2]>> : e \in {x \in r.pre : x[3] = pk}},
     suffix |-> {<<e[1], e[2]>> : e \in {x \in r.suf : x[3] = pk}}]

\* the scores of a record in the sorted sets
ScoresOf(r, pk) == [f \in {x \in DOMAIN r.zidx : x[2] = pk} |-> r.zidx[f]]

\* the unique mappings that point to a record
MappingsOf(r, pk) == {f \in DOMAIN r.uidx : r.uidx[f] = pk}

\* record pkA holds the encoded value s in column u
HoldsValue(pkA, u, s) == u \in DOMAIN redis.hash[pkA] /\ redis.hash[pkA][u] = s

\* C1: under the scripted path, a save of record B whose new value of a
\* unique column is the value a live record A holds raises
\* UniqueKeyViolation and leaves A's primary hash, A's unique mappings and
\* A's index entries as they were.
C1_SecondApplyRejected ==
    use_lua =>
      \A pkB \in Ids : InStep(pkB) =>
        \A full \in BOOLEAN : \A new \in NewMaps(cls, pkB) :
          \A u \in Unique(cls) : \A pkA \in Ids \ {pkB} :
            (u \in DOMAIN new /\ Live(pkA) /\ HoldsValue(pkA, u, ToRedis(u, new[u]))) =>
              \A res \in SaveResults(pkB, new, full) :
                /\ res.outcome = "UniqueKeyViolation"
                /\ res.redis.hash[pkA] = redis.hash[pkA]
                /\ MappingsOf(res.redis, pkA) = MappingsOf(redis, pkA)
                /\ EntriesOf(res.redis, pkA) = EntriesOf(redis, pkA)
                /\ ScoresOf(res.redis, pkA) = ScoresOf(redis, pkA)

\* C2: under the optimistic path, a save whose new value of the unique
\* column is not null (zero and the empty text included), differs from the
\* old value or is written in full, and is mapped to another record id, is
\* rejected with UniqueKeyViolation and the mapping is not overwritten.
C2_OptimisticRejects ==
    ~use_lua =>
      \A pk \in Ids : InStep(pk) =>
        \A full \in BOOLEAN : \A new \in NewMaps(cls, pk) : \A u \in Unique(cls) :
          LET c == SaveCall(pk, new, full)
          IN (/\ u \in DOMAIN new
              /\ (c.full \/ ~HasOld(c, u) \/ c.old[u] # Rnval(c, u))
              /\ Known(redis, u, Rnval(c, u))
              /\ redis.uidx[<<u, Rnval(c, u)>>] # pk) =>
               \A res \in SaveResults(pk, new, full) :
                 /\ res.outcome = "UniqueKeyViolation"
                 /\ Known(res.redis, u, Rnval(c, u))
                 /\ res.redis.uidx[<<u, Rnval(c, u)>>] = redis.uidx[<<u, Rnval(c, u)>>]

\* C3: whenever a save or a delete reports a uniqueness violation, under
\* either commit strategy, the whole store (primary hashes, unique maps,
\* index structures, descriptors) is what it was before the call.
C3_ViolationLeavesStore ==
    \A pk \in Ids :
      /\ \A full \in BOOLEAN : \A new \in NewMaps(cls, pk) :
           \A res \in SaveResults(pk, new, full) :
             res.outcome = "UniqueKeyViolation" => res.redis = redis
      /\ \A res \in DeleteResults(pk) :
           res.outcome = "UniqueKeyViolation" => res.redis = redis

\* a save was rejected with a uniqueness violation while another record is live
C3_Witness ==
    /\ ret.op = "save"
    /\ ret.outcome = "UniqueKeyViolation"
    /\ \E pk \in Ids \ {ret.pk} : Live(pk) /\ MappingsOf(redis, pk) # {}

\* what the descriptor of a record lists (nothing when it has none)
Listed(r, pk) ==
    IF pk \in DOMAIN r.desc THEN r.desc[pk]
    ELSE [keys |-> {}, scored |-> {}, prefix |-> {}, suffix |-> {}]

NoEntries == [keys |-> {}, scored |-> {}, prefix |-> {}, suffix |-> {}]

\* the saved Python values of a record, and the call that would index them
Decoded(old) == [a \in DOMAIN old |-> FromRedis(a, old[a])]

Saved(pk) == [m |-> cls, new |-> Decoded(last[pk]), delete |-> FALSE]

\* the index entries the saved values of a record give rise to
Derived(pk) ==
    [keys |-> Keys(Saved(pk)), scored |-> DOMAIN Scores(Saved(pk)),
     prefix |-> PrefixList(Saved(pk)), suffix |-> SuffixList(Saved(pk))]

\* C4: for every record that has been created and updated by successful
\* saves, the descriptor stored under '<namespace>::' lists exactly the
\* index entries that the index structures hold for the record.
C4_DescriptorMirrorsEntries ==
    \A pk \in Ids : Live(pk) => EntriesOf(redis, pk) = Listed(redis, pk)

\* C5: after the delete of a record, its primary hash and its descriptor
\* are gone and no index structure holds an entry of the record.
C5_DeleteRemovesEverything ==
    \A pk \in Ids : deleted[pk] =>
      /\ redis.hash[pk] = EmptyMap
      /\ pk \notin DOMAIN redis.desc
      /\ EntriesOf(redis, pk) = NoEntries

\* the step is a successful save of a saved record that changes the value of
\* an attribute with a range, prefix or suffix index
ChangesIndexedValue ==
    /\ ret'.op = "save" /\ ret'.outcome = "ok" /\ ~ret'.first
    /\ \E a \in Columns(cls) :
         /\ KeygenKind(cls, a) # "none"
         /\ a \in DOMAIN last[ret'.pk] /\ a \in DOMAIN last'[ret'.pk]
         /\ last[ret'.pk][a] # last'[ret'.pk][a]

\* the range, prefix and suffix entries of the record are those of its saved
\* values, and the descriptor lists them
OnlyNewEntries(pk) ==
    /\ EntriesOf(redis, pk).scored = Derived(pk).scored
    /\ ScoresOf(redis, pk) = [f \in {<<a, pk>> : a \in DOMAIN Scores(Saved(pk))} |->
                                Scores(Saved(pk))[f[1]]]
    /\ EntriesOf(redis, pk).prefix = Derived(pk).prefix
    /\ EntriesOf(redis, pk).suffix = Derived(pk).suffix
    /\ pk \in DOMAIN redis.desc
    /\ redis.desc[pk].scored = Derived(pk).scored
    /\ redis.desc[pk].prefix = Derived(pk).prefix
    /\ redis.desc[pk].suffix = Derived(pk).suffix

\* C6: after an update that changes the value of a range-, prefix- or
\* suffix-indexed attribute, the index structures hold for the record only
\* the entries of the new value and the new descriptor has been stored.
C6_UpdateLeavesOnlyNewEntries ==
    [][ChangesIndexedValue => OnlyNewEntries(ret.pk)']_vars

\* C7: after a successful save of a record whose indexed attribute has a
\* list keygen and a value that is not null, the record id is a member of
\* the membership set of every generated key.
C7_MembershipAfterApply ==
    \A pk \in Ids : Live(pk) => \A k \in Keys(Saved(pk)) : <<k, pk>> \in redis.idx

\* C8: the primary hash of a record holds exactly the encoded values of the
\* attributes that are not null in the new map of its latest successful
\* save, and nothing after its delete or before its first save.
C8_HashMirrorsNew ==
    \A pk \in Ids : redis.hash[pk] = IF Live(pk) THEN last[pk] ELSE EmptyMap

\* an update has removed an attribute of a record and kept another
C8_Witness ==
    /\ ret.op = "save" /\ ret.outcome = "ok" /\ ret.removed /\ ~ret.first
    /\ redis.hash[ret.pk] = last[ret.pk]
    /\ Cardinality(DOMAIN redis.hash[ret.pk]) >= 2
    /\ \E a \in Columns(cls) : a \notin DOMAIN redis.hash[ret.pk]

\* record pkA holds the encoded values vals in the columns uniq
HoldsTuple(pkA, uniq, vals) == \A i \in 1..Len(uniq) : HoldsValue(pkA, uniq[i], vals[i])

\* C9: with scripting enabled, a save whose new map has a null column of a
\* composite constraint is accepted and leaves no row of the constraint for
\* the record; a save whose columns are all present and equal those of
\* another live record raises UniqueKeyViolation.
C9_CompositeUnique ==
    use_lua =>
      \A pk \in Ids :
        \A full \in BOOLEAN : \A new \in NewMaps(cls, pk) : \A uniq \in Cunique(cls) :
          LET c == SaveCall(pk, new, full)
          IN \A res \in SaveResults(pk, new, full) :
               /\ NNone(c, uniq) =>
                    /\ res.outcome = "ok"
                    /\ \A f \in MappingsOf(res.redis, pk) : f[1] # JoinCols(uniq)
               /\ (/\ ~NNone(c, uniq)
                   /\ \E pkA \in Ids \ {pk} : Live(pkA) /\ HoldsTuple(pkA, uniq, NData(c, uniq)))
                    => res.outcome = "UniqueKeyViolation"

\* a record saved with a null column holds no row, and its save with the
\* columns of another live record has been rejected
C9_Witness ==
    /\ cls = "UniquePosition" /\ use_lua
    /\ ret.op = "save" /\ ret.outcome = "UniqueKeyViolation"
    /\ Live(ret.pk)
    /\ "x" \notin DOMAIN redis.hash[ret.pk]
    /\ MappingsOf(redis, ret.pk) = {}
    /\ \E pkA \in Ids \ {ret.pk} : Live(pkA) /\ MappingsOf(redis, pkA) # {}

\* C10: a unique map holds value -> id exactly when record id is live and
\* its value of the column is that value, and no save queues or writes a
\* row for a null value.
C10_UniqueMapMirrorsRecords ==
    /\ \A f \in DOMAIN redis.uidx : f[1] \in Unique(cls) =>
         Live(redis.uidx[f]) /\ HoldsValue(redis.uidx[f], f[1], f[2])
    /\ \A pk \in Ids : \A u \in Unique(cls) :
         (Live(pk) /\ u \in DOMAIN redis.hash[pk]) =>
           (Known(redis, u, redis.hash[pk][u]) /\ redis.uidx[<<u, redis.hash[pk][u]>>] = pk)
    /\ \A pk \in Ids : InStep(pk) =>
         \A full \in BOOLEAN : \A new \in NewMaps(cls, pk) : \A u \in Unique(cls) :
           WritesUnique(SaveCall(pk, new, full), u) => u \in DOMAIN new

\* a schema that both commit paths support
Supported(m) ==
    /\ Cardinality(Unique(m)) <= 1
    /\ Cunique(m) = {}
    /\ Prefix(m) = {} /\ Suffix(m) = {}

\* the results of a call under the scripted and under the optimistic path
UnderLua(c) == ApplyChanges(redis, [c EXCEPT !.lua = TRUE])

UnderPipe(c) == ApplyChanges(redis, [c EXCEPT !.lua = FALSE])

\* the two results accept or reject alike, return the same count and leave
\* the same primary hashes and unique maps
SameEffect(l, p) ==
    /\ (l.outcome = "ok") = (p.outcome = "ok")
    /\ l.changes = p.changes
    /\ l.redis.hash = p.redis.hash
    /\ l.redis.uidx = p.redis.uidx

\* C11: for a schema that both paths support, a save or a delete started
\* from the same store with the same arguments is accepted or rejected alike
\* by the scripted and the optimistic path, returns the same count and
\* leaves the same primary hash and the same unique map.
C11_PathsEquivalent ==
    Supported(cls) =>
      \A pk \in Ids : InStep(pk) =>
        /\ \A full \in BOOLEAN : \A new \in NewMaps(cls, pk) :
             \A l \in UnderLua(SaveCall(pk, new, full)) :
               \A p \in UnderPipe(SaveCall(pk, new, full)) : SameEffect(l, p)
        /\ \A l \in UnderLua(DeleteCall(pk)) :
             \A p \in UnderPipe(DeleteCall(pk)) : SameEffect(l, p)

\* the attributes of the schema whose new value differs from the old one
Differing(c) == {a \in Columns(c.m) : ~SameValue(c, a)}

\* C12: a successful save or delete returns the number of attributes of the
\* schema whose new value differs from the old value, whatever the full flag.
C12_CountsChanged ==
    \A pk \in Ids : InStep(pk) =>
      /\ \A full \in BOOLEAN : \A new \in NewMaps(cls, pk) :
           \A res \in SaveResults(pk, new, full) :
             res.outcome = "ok" =>
               res.changes = Cardinality(Differing(SaveCall(pk, new, full)))
      /\ \A res \in DeleteResults(pk) :
           res.outcome = "ok" => res.changes = Cardinality(Differing(DeleteCall(pk)))

\* the schema has a composite constraint or more than one unique column
Unsupported(m) == Cunique(m) # {} \/ Cardinality(Unique(m)) > 1

\* C15: with scripting disabled, every save and delete on a schema with a
\* composite unique constraint or more than one unique column raises
\* ColumnError and leaves the store as it was.
C15_ConfigErrorKeepsStore ==
    (~use_lua /\ Unsupported(cls)) =>
      \A pk \in Ids :
        /\ \A full \in BOOLEAN : \A new \in NewMaps(cls, pk) :
             \A res \in SaveResults(pk, new, full) :
               res.outcome = "ColumnError" /\ res.redis = redis
        /\ \A res \in DeleteResults(pk) :
             res.outcome = "ColumnError" /\ res.redis = redis

\* a save on such a schema has been refused and nothing is stored
C15_Witness ==
    /\ ~use_lua /\ Unsupported(cls)
    /\ ret.op = "save" /\ ret.outcome = "ColumnError"
    /\ redis = EmptyRedis

\* the client of entity p commits in this step
Commits(p) == th[p].pc = "exec" /\ th'[p].pc = "tail"

\* the commit leaves the unique mappings of the other records as they are
KeepsOthers(p) ==
    \A f \in DOMAIN redis.uidx :
      redis.uidx[f] # p => (f \in DOMAIN redis'.uidx /\ redis'.uidx[f] = redis.uidx[f])

\* the commit maps the new unique values of the call to its record
WritesOwn(p) ==
    \A u \in Unique(cls) :
      u \in DOMAIN th[p].new =>
        /\ <<u, ToRedis(u, th[p].new[u])>> \in DOMAIN redis'.uidx
        /\ redis'.uidx[<<u, ToRedis(u, th[p].new[u])>>] = p

\* C13: under the optimistic path, a call whose watched unique map was
\* modified by another client between its WATCH and its EXEC retries the
\* whole cycle once for each such modification, and when it then commits the
\* store holds both the other client's mappings and its own (no lost
\* update).  The statement is read in the claim's favour: a retry that
\* finds the value taken by the other client and raises UniqueKeyViolation
\* is not held against it.
C13_RetryThenCommit ==
    [][\A p \in Ids :
         (Commits(p) /\ th[p].hits >= 1) =>
           /\ th[p].retries = th[p].hits
           /\ KeepsOthers(p)
           /\ WritesOwn(p)]_vars

\* the first call of the client of entity p has ended
FirstDone(p) == th[p].pc = "idle" /\ th[p].calls = 1

\* C14: under the optimistic path, when the first saves of two records with
\* the same unique value have both ended, whatever their interleaving, at
\* most one has committed; the unique map maps the value to the committed
\* record and the rejected record has no primary hash.
C14_OneCreateWins ==
    \A p \in Ids : \A q \in Ids \ {p} :
      (FirstDone(p) /\ FirstDone(q)) =>
        \A u \in Unique(cls) :
          /\ (/\ th[p].outcome = "ok" /\ th[q].outcome = "ok"
              /\ u \in DOMAIN last[p] /\ u \in DOMAIN last[q])
               => last[p][u] # last[q][u]
          /\ (th[p].outcome = "ok" /\ u \in DOMAIN last[p])
               => (Known(redis, u, last[p][u]) /\ redis.uidx[<<u, last[p][u]>>] = p)
          /\ th[p].outcome = "UniqueKeyViolation" => redis.hash[p] = EmptyMap

\* the step is a save() or delete() call: the flag and the defined models
\* stay and the call is recorded
Applies ==
    /\ use_lua' = use_lua
    /\ defined' = defined
    /\ ret'.op \in {"save", "delete"}

\* C16: the configuration error for a schema with a composite unique
\* constraint or more than one unique column is raised by the model
\* definition when scripting is disabled at that moment, and the model is
\* then not defined; it is raised by every save and delete made while
\* scripting is disabled on a model that was defined while scripting was
\* enabled; while scripting is enabled neither a definition nor a call
\* raises it.
C16_ErrorAtDefinitionOrApply ==
    [][/\ \A m \in Models \ defined :
            Define(m) =>
              /\ ret'.outcome = "ColumnError" <=>
                   (~use_lua /\ (\/ Cardinality(Unique(m)) > 1
                                 \/ UniqueTogether(m) # {}
                                 \/ Prefix(m) # {} \/ Suffix(m) # {}))
              /\ ret'.outcome = "ColumnError" => m \notin defined'
       /\ (Applies /\ (ret'.op = "save" \/ Pkey \in DOMAIN last[ret'.pk])) =>
            (ret'.outcome = "ColumnError" <=> (~use_lua /\ Unsupported(cls)))]_vars

\* a save of a model defined under scripting is refused once scripting is off
C16_Witness ==
    /\ cls \in defined
    /\ ~use_lua
    /\ Unsupported(cls)
    /\ ret.op = "save"
    /\ ret.outcome = "ColumnError"

\* C16 as stated: the configuration error is raised when the schema is
\* defined and never from a save, whatever the order of flag toggles and
\* model definitions.
C16_NeverFromApply == ret.op = "save" => ret.outcome # "ColumnError"

\* the Query has zero filters and no ordering
Empty(q, h) == Len(Filters(q, h)) = 0 /\ q.order_by = "None"

\* the call ended in QueryError before any store operation
RaisedUnsent == qret'.outcome = "QueryError" /\ ~qret'.store /\ cache' = cache

\* C17: on a Query with zero filters and no ordering, count(), execute(),
\* all(), first() and cached_result() raise QueryError before any store
\* operation is issued; iter_result() returns a generator without raising
\* and without a store operation, and the generator raises QueryError, again
\* before any store operation, when it is first advanced.
C17_EmptyQueryRaises ==
    [][/\ (/\ Empty(qs.self, heap)
           /\ \/ QCount \/ QExecute \/ QAll \/ QFirst
              \/ \E timeout \in Timeouts : QCachedResult(timeout))
            => RaisedUnsent
       /\ (Empty(qs.self, heap) /\ \E timeout \in Timeouts : QIterResult(timeout))
            => (qret'.outcome = "generator" /\ ~qret'.store /\ cache' = cache)
       /\ (gen.state = "new" /\ Empty(gen.q, heap) /\ QNext)
            => RaisedUnsent]_vars

\* the generator of a Query without criteria has raised at its first advance
C17_Witness ==
    /\ Empty(qs.self, heap)
    /\ qret.op = "next"
    /\ qret.outcome = "QueryError"
    /\ ~qret.store

\* C17 as stated: each of count(), execute(), all(), first(),
\* cached_result() and iter_result() raises QueryError on a Query with zero
\* filters and no ordering, before any store operation.
C17_EveryCallRaises ==
    [][(/\ Empty(qs.self, heap)
        /\ \/ QCount \/ QExecute \/ QAll \/ QFirst
           \/ \E timeout \in Timeouts : QCachedResult(timeout)
           \/ \E timeout \in Timeouts : QIterResult(timeout))
         => RaisedUnsent]_vars

\* C18: count() on a Query with no filters returns 0.
C18_CountReturnsZero ==
    [][(QCount /\ Len(Filters(qs.self, heap)) = 0)
         => (qret'.outcome = "ok" /\ qret'.value = 0)]_vars

\* what a Query holds: its filters, its ordering and its limit
View(q, h) ==
    [filters |-> Filters(q, h), order_by |-> q.order_by, limit |-> q.limit]

\* C19: every Query call leaves the filters, the ordering and the limit of
\* its receiver as they were, also when it raises; filter(), startswith(),
\* endswith() and like() return a Query whose filters are the receiver's
\* followed by the new one.
C19_ReceiverUnchanged ==
    [][/\ ~QRebind => View(qs'.self, heap') = View(qs.self, heap)
       /\ \A op \in {"startswith", "endswith", "like"} :
            (Concat(op) /\ qret'.outcome = "ok") =>
              Filters(qs'.result, heap')
                = Append(Filters(qs.self, heap), FilterOf(op))
       /\ QFilter("number") =>
            Filters(qs'.result, heap')
              = Append(Filters(qs.self, heap), FilterOf("filter"))]_vars

\* C20: a cached result is created only by cached_result() and by the
\* generator of iter_result(), never by execute(), all(), first() or count();
\* every cached result has an expiry of at least one second and no limit
\* applied; cached_result() with int(timeout) < 1 raises QueryError without
\* a search.
C20_CachedOnlyByCachedResult ==
    [][/\ Len(cache') > Len(cache) =>
            (QNext \/ \E timeout \in Timeouts : QCachedResult(timeout))
       /\ \A i \in 1..Len(cache') :
            cache'[i].ttl >= 1 /\ cache'[i].limit = <<>>
       /\ \A timeout \in Timeouts :
            (QCachedResult(timeout) /\ IntOf(timeout) < 1) => RaisedUnsent]_vars

\* cached_result() on a Query with a limit has stored a result
C20_Witness ==
    /\ qret.op = "cached_result"
    /\ qret.outcome = "ok"
    /\ Len(cache) > 0
    /\ qs.self.limit # <<>>

\* the new value of attribute a is the last saved value of the record
Unmodified(pk, new, a) ==
    \/ a \notin DOMAIN new /\ a \notin DOMAIN last[pk]
    \/ a \in DOMAIN new /\ a \in DOMAIN last[pk] /\ last[pk][a] = ToRedis(a, new[a])

\* field a of the primary hash h is what it is in g
SameField(h, g, a) ==
    /\ a \in DOMAIN h <=> a \in DOMAIN g
    /\ a \in DOMAIN h => h[a] = g[a]

RowOf(cols, new) ==
    <<JoinCols(cols),
      EncodeUniqueConstraint([i \in 1..Len(cols) |-> ToRedis(cols[i], new[cols[i]])])>>

\* the store r maps the row to the record and has no unique map of the name
\* other
RowIn(r, row, pk, other) ==
    /\ row \in DOMAIN r.uidx
    /\ r.uidx[row] = pk
    /\ \A f \in DOMAIN r.uidx : f[1] # other

\* C23: the key of a composite unique constraint is the join of the encoded
\* values of its columns in the sorted order of the column names, whatever
\* the order in which the constraint declares them, and the unique map is
\* named by the column names joined in that sorted order: for
\* unique_together = [('y', 'x')] the map is 'x:y' and the key is x's value
\* followed by y's.
C23_CompositeKeySorted ==
    (use_lua /\ cls = "UniquePosition") =>
      \A pk \in Ids : \A full \in BOOLEAN : \A new \in NewMaps(cls, pk) :
        \A res \in SaveResults(pk, new, full) :
          (res.outcome = "ok" /\ {"x", "y"} \subseteq DOMAIN new) =>
            RowIn(res.redis, RowOf(<<"x", "y">>, new), pk, "y:x")

\* a record with different values of x and y holds its row in the map 'x:y'
C23_Witness ==
    /\ use_lua /\ cls = "UniquePosition"
    /\ ret.op = "save" /\ ret.outcome = "ok" /\ Live(ret.pk)
    /\ {"x", "y"} \subseteq DOMAIN last[ret.pk]
    /\ last[ret.pk]["x"] # last[ret.pk]["y"]
    /\ RowIn(redis, <<"x:y", EncodeUniqueConstraint(<<last[ret.pk]["x"], last[ret.pk]["y"]>>)>>,
             ret.pk, "y:x")

\* C23 as stated: the key joins the encoded values in the order in which
\* the constraint declares its columns, and the unique map is named by the
\* column names in that declared order.
C23_CompositeKeyDeclared ==
    (use_lua /\ cls = "UniquePosition") =>
      \A pk \in Ids : \A full \in BOOLEAN : \A new \in NewMaps(cls, pk) :
        \A res \in SaveResults(pk, new, full) :
          (res.outcome = "ok" /\ {"x", "y"} \subseteq DOMAIN new) =>
            \A comp \in UniqueTogether(cls) :
              RowIn(res.redis, RowOf(comp, new), pk, "x:y")

\* the unique mappings of the store r that point to a record other than pk
OthersRows(r, pk) == {f \in DOMAIN r.uidx : r.uidx[f] # pk}

\* C25: under either commit strategy, a save or a delete that removes a
\* stale unique mapping of its record (value changed, value set to null,
\* record deleted) removes no mapping that points to another record id.
C25_KeepsOthersMappings ==
    \A pk \in Ids : InStep(pk) =>
      /\ \A full \in BOOLEAN : \A new \in NewMaps(cls, pk) :
           \A res \in SaveResults(pk, new, full) :
             res.outcome = "ok" => OthersRows(redis, pk) \subseteq DOMAIN res.redis.uidx
      /\ \A res \in DeleteResults(pk) :
           res.outcome = "ok" => OthersRows(redis, pk) \subseteq DOMAIN res.redis.uidx

\* every index entry of the record in the store r is one it has in redis,
\* with the same score
NoNewEntries(r, pk) ==
    /\ EntriesOf(r, pk).keys \subseteq EntriesOf(redis, pk).keys
    /\ EntriesOf(r, pk).prefix \subseteq EntriesOf(redis, pk).prefix
    /\ EntriesOf(r, pk).suffix \subseteq EntriesOf(redis, pk).suffix
    /\ \A f \in DOMAIN ScoresOf(r, pk) :
         f \in DOMAIN ScoresOf(redis, pk) /\ ScoresOf(r, pk)[f] = ScoresOf(redis, pk)[f]

\* C26: the mutation set of a delete has no keys, scores, prefix or suffix
\* entries, whatever the old map, and a delete that commits removes the
\* primary hash and the descriptor of the record and writes no index entry
\* for it.
C26_DeleteWritesNoIndex ==
    \A pk \in Ids : InStep(pk) =>
      /\ Keys(DeleteCall(pk)) = {}
      /\ Scores(DeleteCall(pk)) = EmptyMap
      /\ PrefixList(DeleteCall(pk)) = {}
      /\ SuffixList(DeleteCall(pk)) = {}
      /\ \A res \in DeleteResults(pk) :
           res.outcome = "ok" =>
             /\ res.redis.hash[pk] = EmptyMap
             /\ pk \notin DOMAIN res.redis.desc
             /\ NoNewEntries(res.redis, pk)

\* a record that had index entries has been deleted
C26_Witness ==
    /\ ret.op = "delete" /\ ret.outcome = "ok"
    /\ deleted[ret.pk]
    /\ \E a \in Columns(cls) : KeygenKind(cls, a) # "none" /\ a \in DOMAIN last[ret.pk]
    /\ redis.hash[ret.pk] = EmptyMap
    /\ ret.pk \notin DOMAIN redis.desc

\* the store r holds for the record pk the index entries of the value v of
\* attribute b that redis holds for it
KeepsEntries(r, pk, b, v) ==
    /\ <<b, pk>> \in DOMAIN redis.zidx =>
         (<<b, pk>> \in DOMAIN r.zidx /\ r.zidx[<<b, pk>>] = redis.zidx[<<b, pk>>])
    /\ <<<<b, v>>, pk>> \in redis.idx => <<<<b, v>>, pk>> \in r.idx
    /\ <<b, v, pk>> \in redis.pre => <<b, v, pk>> \in r.pre
    /\ <<b, Reverse(v), pk>> \in redis.suf => <<b, Reverse(v), pk>> \in r.suf

\* C27: a save without full=True of a persisted entity keeps, for every
\* indexed attribute whose value is unchanged and not null, the index
\* entries the record has for that value, whatever other attribute the
\* save changes.
C27_UnchangedStaysIndexed ==
    \A pk \in Ids : Live(pk) =>
      \A new \in NewMaps(cls, pk) : \A res \in SaveResults(pk, new, FALSE) :
        res.outcome = "ok" =>
          \A b \in Columns(cls) :
            (KeygenKind(cls, b) # "none" /\ b \in DOMAIN new /\ Unmodified(pk, new, b))
              => KeepsEntries(res.redis, pk, b, IF ColType(b) = "Text" THEN new[b] ELSE <<>>)

\* an update has removed the unique attribute of an account; the indexed
\* attribute n is still in its sorted set with its value
C27_Witness ==
    /\ cls = "Account"
    /\ ret.op = "save" /\ ret.outcome = "ok" /\ ~ret.first /\ ret.removed
    /\ "n" \in DOMAIN last[ret.pk]
    /\ <<"n", ret.pk>> \in DOMAIN redis.zidx
    /\ ToString(redis.zidx[<<"n", ret.pk>>]) = last[ret.pk]["n"]

\* the ids in the list stored under field f of a mappings hash
Mapped(r, f) == {PkList(r, f)[i] : i \in DOMAIN PkList(r, f)}

\* C30: after any sequence of save() and delete() calls the secondary
\* structures mirror the saved state: for every indexed column a pk is in
\* '<prefix>:indexed:<attr>' exactly when the record is live with a saved
\* value of the column, and for a text column a pk is in the list under
\* value v of '<prefix>:indexed:<attr>:mappings' exactly when the record is
\* live and its saved value is v.
C30_SecondaryMirrorsSaved ==
    \A a \in Index(cls) : \A pk \in Ids :
      /\ <<a, pk>> \in DOMAIN redis.indexed <=> (Live(pk) /\ a \in DOMAIN last[pk])
      /\ ColType(a) = "Text" =>
           \A v \in ColVals(a) :
             pk \in Mapped(redis, <<a, v>>)
               <=> (Live(pk) /\ a \in DOMAIN last[pk] /\ last[pk][a] = ToRedis(a, v))

\* C28: under the optimistic path every call that has started ends, with
\* the changed count or with UniqueKeyViolation and never with the watch
\* conflict, when the conflicting commits are finitely many; the loop starts
\* another iteration only after a watch conflict at commit.
C28_ApplyTerminates ==
    /\ \A pk \in Ids :
         (th[pk].pc # "idle") ~>
           (th[pk].pc = "idle" /\ th[pk].outcome \in {"ok", "UniqueKeyViolation"})
    /\ [](\A pk \in Ids : th[pk].retries <= th[pk].hits)

\* a call that met a watch conflict has retried and returned
C28_Witness ==
    \E pk \in Ids :
      /\ th[pk].pc = "idle"
      /\ th[pk].retries >= 1
      /\ th[pk].outcome = "ok"

\* C29: a save() that raises UniqueKeyViolation or ColumnError leaves _new,
\* _last, _modified, _deleted, _data and _orig_data of every entity as they
\* were, adds no member to a dirty set and writes nothing to the
\* '<prefix>:indexed:<attr>' structures.
C29_FailedSaveKeepsEntity ==
    [][(ret'.op = "save"
        /\ ret'.outcome \in {"UniqueKeyViolation", "ColumnError"})
       => /\ isnew' = isnew
          /\ last' = last
          /\ deleted' = deleted
          /\ ent' = ent
          /\ dirty' = dirty
          /\ redis'.indexed = redis.indexed
          /\ redis'.mappings = redis.mappings]_vars

\* the save of a persisted entity with a modified writable field has been
\* refused: the entity is still modified and the field is not marked dirty
C29_Witness ==
    /\ ret.op = "save"
    /\ ret.outcome = "UniqueKeyViolation"
    /\ ~isnew[ret.pk]
    /\ ent[ret.pk].modified
    /\ "n" \in ModifiedFieldNames(ent[ret.pk])
    /\ <<ret.pk, "n">> \notin dirty

\* an entity of the id exists for Model.get: in the session or in the store
HasEntity(pk) == pk \in session \/ redis.hash[pk] # EmptyMap

\* where Model.get takes the entity of an id from
SourceOf(pk) == IF pk \in session THEN "session" ELSE "store"

\* C24: Model.get(list) returns the entities of the ids that have one, in
\* the order the ids were passed, each from the session when the session
\* knows it and loaded from the primary hash otherwise; Model.get(id)
\* returns the entity, or None when there is none.
C24_GetKeepsOrder ==
    /\ \A ids \in IdLists :
         LET out == GetOut(session, redis, ids)
         IN /\ PksOf(out) = SelectSeq(ids, HasEntity)
            /\ \A k \in DOMAIN out : out[k].from = SourceOf(out[k].pk)
    /\ \A pk \in Ids :
         GetValue(GetOut(session, redis, <<pk>>), TRUE) =
           IF HasEntity(pk) THEN <<[pk |-> pk, from |-> SourceOf(pk)]>>
           ELSE <<[pk |-> 0, from |-> "None"]>>
    /\ \A k \in DOMAIN got.out :
         got.out[k].from = "store" =>
           /\ got.out[k].pk \in session
           /\ ent[got.out[k].pk] = Hydrated(redis.hash[got.out[k].pk])

\* a get of two ids has left out the first, which has no entity, and has
\* loaded the second from the store
C24_Witness ==
    /\ Len(got.ids) = 2
    /\ ~got.single
    /\ Len(got.out) = 1
    /\ got.out[1].pk = got.ids[2]
    /\ got.out[1].pk # got.ids[1]
    /\ got.out[1].from = "store"

\* the walk has made its search and the cached result has not expired since
Undisturbed == it.searches = 1 /\ it.intact

\* the k-th page of the cached result
PageOf(k) ==
    SubSeq(it.key, (k - 1) * it.pagesize + 1,
           IF k * it.pagesize <= Len(it.key) THEN k * it.pagesize
           ELSE Len(it.key))

IsPrefix(s, t) == Len(s) <= Len(t) /\ SubSeq(t, 1, Len(s)) = s

\* one search; the pages read are the consecutive pages of the cached
\* result, each of at most pagesize ids and each after an EXPIRE of its own;
\* the walk ends only when every page has been read
PagedOnce ==
    /\ it.searches <= 1
    /\ it.state \in {"running", "yielded"} => it.searches = 1
    /\ Undisturbed =>
         /\ it.expires = Len(it.reads)
         /\ \A k \in DOMAIN it.reads :
              it.reads[k] = PageOf(k) /\ Len(it.reads[k]) <= it.pagesize
         /\ it.state = "done" => Len(it.reads) * it.pagesize >= Len(it.key)

\* a yield takes the entity out of the session unless it is modified, and
\* then it leaves the session as it is
YieldForgets ==
    Len(it'.yielded) = Len(it.yielded) + 1 =>
      LET pk == it'.yielded[Len(it'.yielded)]
      IN IF ent[pk].modified THEN session' = session
         ELSE session' = session \ {pk}

\* C21: a walk makes one search and then, while the cached result stays as
\* it is, reads its consecutive pages of at most pagesize ids, with an
\* EXPIRE before each, and yields once and in cached order the entity of
\* every id for which Model.get finds an entity when the page of the id is
\* read; a yielded entity leaves the session unless it is locally modified.
C21_WalkYieldsFound ==
    /\ [](/\ PagedOnce
          /\ Undisturbed =>
               /\ IsPrefix(it.yielded, it.found)
               /\ it.yielded \o it.page = it.found
               /\ it.state = "done" => it.yielded = it.found)
    /\ [][YieldForgets]_vars

\* a walk over two pages has yielded both entities: the one that was
\* modified is still in the session, the other is not
C21_Witness ==
    /\ it.state = "done"
    /\ Undisturbed
    /\ Len(it.reads) = 2
    /\ it.yielded = it.key
    /\ Len(it.key) = 2
    /\ it.key[1] \in session /\ ent[it.key[1]].modified
    /\ it.key[2] \notin session

\* C21 as stated: the entity of every id of the cached result is yielded
C21_WalkYieldsAll ==
    /\ [](/\ PagedOnce
          /\ Undisturbed =>
               /\ IsPrefix(it.yielded, it.key)
               /\ it.state = "done" => it.yielded = it.key)
    /\ [][YieldForgets]_vars

\* the members a step adds to the dirty sets
NewlyDirty == dirty' \ dirty

\* the value of field f of the entity is not its value at load or last save
Differed(pk, f) ==
    LET now == IF f \in DOMAIN ent[pk].data THEN <<ent[pk].data[f]>> ELSE <<>>
        then == IF f \in DOMAIN ent[pk].orig THEN <<ent[pk].orig[f]>> ELSE <<>>
    IN now # then

\* C35: for a class that tracks dirty fields a dirty set holds only names
\* of db_writable_fields; a member is added only by a save() that returned,
\* of an entity that was not new, for a writable field whose value differed
\* from _orig_data when save() was called; the first save of a new entity
\* and a save without a modified writable field add nothing; a delete()
\* that returned leaves the entity's set empty.
C35_DirtyOnlyModifiedWritable ==
    /\ [](\A d \in dirty : d[2] \in DbWritableFields(cls))
    /\ [][/\ NewlyDirty # {} =>
               /\ ret'.op = "save" /\ ret'.outcome = "ok" /\ ~ret'.first
               /\ \A d \in NewlyDirty :
                    /\ d[1] = ret'.pk
                    /\ Differed(d[1], d[2])
          /\ (ret'.op = "save" /\ ret'.outcome = "ok" /\ ~ret'.first) =>
               \A f \in DbWritableFields(cls) :
                 Differed(ret'.pk, f) => <<ret'.pk, f>> \in dirty'
          /\ (ret'.op = "delete" /\ ret'.outcome = "ok") =>
               \A d \in dirty' : d[1] # ret'.pk]_vars

\* a save of a persisted entity has marked its modified writable field
C35_Witness ==
    /\ ret.op = "save"
    /\ ret.outcome = "ok"
    /\ ~ret.first
    /\ <<ret.pk, "n">> \in dirty
    /\ \E pk \in Ids : pk # ret.pk /\ <<pk, "n">> \notin dirty /\ ~isnew[pk]

\* a step leaves the entities, the session and the store as they were
NothingLost ==
    /\ ent' = ent
    /\ last' = last
    /\ isnew' = isnew
    /\ deleted' = deleted
    /\ session' = session
    /\ redis' = redis

\* C33: refresh() on a deleted entity returns and changes nothing; on a
\* modified entity without force, and on a new entity with or without
\* force, it raises InvalidOperation and changes nothing; otherwise it
\* returns with the entity reloaded from the primary hash.
C33_RefreshKeepsLocalState ==
    [][ret'.op \in {"refresh", "refresh_force"} =>
         LET pk == ret'.pk
             force == ret'.op = "refresh_force"
             hash == redis.hash[pk]
         IN IF deleted[pk]
            THEN ret'.outcome = "returned" /\ NothingLost
            ELSE IF isnew[pk] \/ (ent[pk].modified /\ ~force)
            THEN ret'.outcome = "InvalidOperation" /\ NothingLost
            ELSE /\ ret'.outcome = "reloaded"
                 /\ DOMAIN ent'[pk].data = DOMAIN hash
                 /\ \A a \in DOMAIN hash :
                      ToRedis(a, ent'[pk].data[a]) = hash[a]
                 /\ ent'[pk].orig = ent'[pk].data
                 /\ ~ent'[pk].modified
                 /\ last'[pk] = hash]_vars

\* refresh() of a persisted entity with an unsaved assignment has raised:
\* the assigned value is still there
C33_Witness ==
    /\ ret.op = "refresh"
    /\ ret.outcome = "InvalidOperation"
    /\ ~ret.first
    /\ ent[ret.pk].modified
    /\ ent[ret.pk].data # ent[ret.pk].orig

\* C32: the ids filter_by selects are the ids every one of its criteria
\* finds, so that a criterion that finds none leaves none selected.
C32_FilterByIntersects ==
    qret.op = "filter_by" /\ qret.value.crits # <<>> =>
      qret.value.ids =
        {pk \in Ids : \A i \in DOMAIN qret.value.crits :
                        pk \in PkListOf(redis, qret.value.crits[i])}

\* C31: when the save() calls of two records that carry the same text in
\* an indexed column have both returned, the list mapped to the text holds
\* both primary keys, however the calls interleaved.
C31_BothMapped ==
    \A a \in {x \in Index(cls) : ColType(x) = "Text"} :
      \A p, q \in Ids :
        (/\ p # q
         /\ th[p].pc = "idle" /\ th[q].pc = "idle"
         /\ a \in DOMAIN last[p] /\ a \in DOMAIN last[q]
         /\ last[p][a] = last[q][a])
        => LET l == PkList(redis, <<a, last[p][a]>>)
           IN /\ \E i \in DOMAIN l : l[i] = p
              /\ \E i \in DOMAIN l : l[i] = q

\* the primary hash of record pk holds every attribute of the entity's last
\* save, and every unique column among them is mapped to pk
PersistedInFull(r, pk, saved) ==
    /\ \A a \in DOMAIN saved :
         a \in DOMAIN r.hash[pk] /\ r.hash[pk][a] = saved[a]
    /\ \A u \in Unique(cls) \cap DOMAIN saved :
         Known(r, u, saved[u]) /\ r.uidx[<<u, saved[u]>>] = pk

\* C34: when the save() of an entity that had been saved and then deleted
\* returns, the deleted flag is cleared, the primary hash holds every
\* non-null attribute of the entity and its unique mappings exist.
C34_ResavePersistsInFull ==
    [][\A pk \in Ids :
         (/\ ~isnew[pk] /\ deleted[pk]
          /\ ret'.op = "save" /\ ret'.pk = pk /\ ret'.outcome = "ok")
         => /\ ~deleted'[pk]
            /\ PersistedInFull(redis', pk, last'[pk])]_vars

====
